---- MODULE Spec2Model ----
(***************************************************************************)
(* Z-Ray light client: the worker session state machine                    *)
(* (lib/wasm/lightclient.worker.ts), the caller-side bridge and sync       *)
(* orchestrator (lib/wasm/lightclient.ts) and the lightwalletd endpoint    *)
(* pool with failover (lib/lightwalletd/client.ts).                        *)
(*                                                                         *)
(* Three groups of variables, one per component, and one specification per *)
(* component:                                                              *)
(*   SpecWorker  the worker alone, fed arbitrary requests;                 *)
(*   Spec        the bridge driving the worker over two FIFO channels;     *)
(*   SpecPool    the endpoint pool under withFailover calls                *)
(*               (FairSpecPool adds the fairness of the event loop);       *)
(*   SpecSelect  selectBestEndpoint alone, applied to every pool;          *)
(*   SpecRun     fullSync runs against a responsive worker, long enough    *)
(*               for runs of several chunks;                               *)
(*   SpecProgress  computeProgress alone, applied to every triple of       *)
(*               heights;                                                  *)
(*   SpecSession the session provider's startSession over a responsive     *)
(*               worker.                                                   *)
(***************************************************************************)
EXTENDS Integers, Sequences, FiniteSets, TLC

VARIABLES
  \* ---- worker (lightclient.worker.ts)
  worker,        \* WorkerState
  workerAlive,   \* FALSE once worker.terminate() was called
  toWorker,      \* requests posted to the worker, not yet handled (FIFO)
  toBridge,      \* messages posted by the worker, not yet delivered (FIFO)
  \* ---- bridge (lightclient.ts)
  initialized, viewingKeySet, destroyed,
  lastSyncStatus,
  pendingRequests,  \* requestId -> [action, expectedType]
  timers,           \* requestIds whose setTimeout is armed
  nextId,           \* generateRequestId: the next fresh id
  settles,          \* requestId sent -> how often its promise's resolve/reject was called
  ops,              \* client operation -> where its call is suspended, or "idle"
  sync,             \* locals of the running fullSync
  events,           \* what the last step did to callers: calls ended, late responses discarded
  cleared,          \* history: a clearSession call has resolved
  clearOrder,       \* history: whether a "clearSession" request was posted after
                    \* the latest "setViewingKey" request (afterRequest), after
                    \* the request of the latest setViewingKey call that resolved
                    \* (afterResolved), after the latest resolution of a
                    \* setViewingKey call (afterResolution)
  \* ---- endpoint pool (lightwalletd/client.ts)
  endpoints,        \* id -> EndpointRuntimeState
  activeEndpoint,   \* id of the active endpoint, or NoEndpoint
  call,             \* the withFailover call in progress
  \* ---- session provider (state/session-context.tsx)
  session,          \* the reducer's ZRaySessionState
  lightClientRef,   \* "client" once the provider holds a light client, else "null"
  startSessionPc,   \* where the startSession call is suspended, or "idle"
  orphans           \* workers of clients the provider dropped that it never terminated

workerVars == <<worker, workerAlive, toWorker, toBridge>>
bridgeVars == <<initialized, viewingKeySet, destroyed, lastSyncStatus,
                pendingRequests, timers, nextId, settles, ops, sync, events, cleared,
                clearOrder>>
poolVars   == <<endpoints, activeEndpoint, call>>
sessionVars == <<session, lightClientRef, startSessionPc, orphans>>
vars       == <<workerVars, bridgeVars, poolVars, sessionVars>>

----------------------------------------------------------------------------
(* Bounds of the model *)

\* requests the bridge (or, in SpecWorker, the environment) may post in one behaviour
MaxRequests == 4
\* the largest chain tip is MaxChunks * SYNC_CHUNK_SIZE + 2000
MaxChunks == 2
\* endpoints in a pool
MaxEndpoints == 2
\* withFailover calls in one behaviour
MaxCalls == 2
\* requests the environment of SpecWorker may post in one behaviour
MaxWorkerRequests == 5
\* endpoints in a pool of SpecSelect
SelectEndpoints == 3
\* requests the bridge may post in one behaviour of SpecRun
MaxRunRequests == 7
\* highest scanned height handed to computeProgress in SpecProgress
MaxHeight == 210
\* requests sent in the runs checked for settlement
MaxSettleRequests == 3
\* workers of dropped clients counted in the session provider model
MaxOrphans == 2

(* Program constants *)
DEFAULT_LOOKBACK_BLOCKS == 100000
SYNC_CHUNK_SIZE == 5000
MAX_RETRIES_PER_CHUNK == 3

\* an optional number that is absent (undefined)
Undefined == -1
\* an optional string that is absent (undefined)
NoMessage == "undefined"
\* a message that carries no requestId
NoRequestId == 0

Max(a, b) == IF a >= b THEN a ELSE b
Min(a, b) == IF a <= b THEN a ELSE b

----------------------------------------------------------------------------
(* lightclient.ts: LightClientSyncStatus *)

SyncStatus(stage, progress, scanned, chain, err) ==
  [stage |-> stage, progress |-> progress, latestScannedHeight |-> scanned,
   latestChainHeight |-> chain, errorMessage |-> err]

\* { stage: "idle", progress: 0 }
IdleStatus == SyncStatus("idle", 0, Undefined, Undefined, NoMessage)

(* lightclient.messages.ts: DecryptedSnapshot and the WorkerResponse variants *)

Snapshot(w) == [transactions |-> w.decryptedTransactions, balances |-> w.balances]
EmptySnapshot == [transactions |-> <<>>, balances |-> "null"]

SyncStatusMsg(st)   == [type |-> "syncStatus", payload |-> st]
LogMsg(m)           == [type |-> "log", message |-> m]
OkMsg(id, action)   == [type |-> "ok", requestId |-> id, action |-> action]
SnapshotMsg(id, sn) == [type |-> "snapshot", requestId |-> id, payload |-> sn]
ErrorMsg(m, id, fatal) == [type |-> "error", message |-> m, requestId |-> id, fatal |-> fatal]

----------------------------------------------------------------------------
(* lightclient.worker.ts *)

InitialWorkerState ==
  [network |-> "none", syncStatus |-> IdleStatus, wasmInitialized |-> FALSE,
   hasViewingKey |-> FALSE, decryptedTransactions |-> <<>>, balances |-> "null",
   syncStartHeight |-> Undefined, syncTargetHeight |-> Undefined]

\* A handler's result: the new state and the messages it posted, in order.
Result(w, out) == [state |-> w, out |-> out]

\* postError(message, requestId, fatal): the error, and when fatal the status push
postError(w, message, requestId, fatal) ==
  IF fatal
    THEN LET st == [w.syncStatus EXCEPT !.stage = "error", !.errorMessage = message]
         IN Result([w EXCEPT !.syncStatus = st],
                   <<ErrorMsg(message, requestId, fatal), SyncStatusMsg(st)>>)
    ELSE Result(w, <<ErrorMsg(message, requestId, fatal)>>)

\* ensureWasmInitialized(): sets the flag and logs, the first time only
ensureWasmInitialized(w) ==
  IF w.wasmInitialized
    THEN Result(w, <<>>)
    ELSE Result([w EXCEPT !.wasmInitialized = TRUE], <<LogMsg("no-WASM mode")>>)

handleInit(w, req) ==
  LET e  == ensureWasmInitialized(w)
      w2 == [e.state EXCEPT !.network = req.network,
                            !.syncStatus = IdleStatus,
                            !.syncStartHeight = Undefined,
                            !.syncTargetHeight = Undefined]
  IN Result(w2, e.out \o <<LogMsg("initialized"), SyncStatusMsg(w2.syncStatus),
                           OkMsg(req.requestId, "init")>>)

handleSetViewingKey_KeepsRun(w, req) ==
  IF w.network = "none"
    THEN postError(w, "Cannot set viewing key before init.", req.requestId, FALSE)
    ELSE LET e  == ensureWasmInitialized(w)
             w2 == [e.state EXCEPT !.hasViewingKey = TRUE,
                                   !.syncStatus = IdleStatus]
         IN Result(w2, e.out \o <<LogMsg("viewing key configured"),
                                  SyncStatusMsg(w2.syncStatus),
                                  OkMsg(req.requestId, "setViewingKey")>>)

handleSetViewingKey_KeyFirst(w, req) ==
  IF w.network = "none"
    THEN postError([w EXCEPT !.hasViewingKey = TRUE],
                   "Cannot set viewing key before init.", req.requestId, FALSE)
    ELSE LET e  == ensureWasmInitialized(w)
             w2 == [e.state EXCEPT !.hasViewingKey = TRUE,
                                   !.syncStatus = IdleStatus,
                                   !.syncStartHeight = Undefined,
                                   !.syncTargetHeight = Undefined]
         IN Result(w2, e.out \o <<LogMsg("viewing key configured"),
                                  SyncStatusMsg(w2.syncStatus),
                                  OkMsg(req.requestId, "setViewingKey")>>)

handleSetViewingKey_LogsKey(w, req) ==
  IF w.network = "none"
    THEN postError(w, "Cannot set viewing key before init.", req.requestId, FALSE)
    ELSE LET e  == ensureWasmInitialized(w)
             w2 == [e.state EXCEPT !.hasViewingKey = TRUE,
                                   !.syncStatus = IdleStatus,
                                   !.syncStartHeight = Undefined,
                                   !.syncTargetHeight = Undefined]
         IN Result(w2, e.out \o <<LogMsg(req.ufvk),
                                  SyncStatusMsg(w2.syncStatus),
                                  OkMsg(req.requestId, "setViewingKey")>>)

handleSetViewingKey(w, req) ==
  IF w.network = "none"
    THEN postError(w, "Cannot set viewing key before init.", req.requestId, FALSE)
    ELSE LET e  == ensureWasmInitialized(w)
             w2 == [e.state EXCEPT !.hasViewingKey = TRUE,
                                   !.syncStatus = IdleStatus,
                                   !.syncStartHeight = Undefined,
                                   !.syncTargetHeight = Undefined]
         IN Result(w2, e.out \o <<LogMsg("viewing key configured"),
                                  SyncStatusMsg(w2.syncStatus),
                                  OkMsg(req.requestId, "setViewingKey")>>)

handleSync_ReplyFirst(w, req) ==
  IF w.network = "none" \/ ~w.hasViewingKey
    THEN postError(w, "Cannot sync without network and viewing key.", req.requestId, FALSE)
    ELSE LET e  == ensureWasmInitialized(w)
             w2 == [e.state EXCEPT !.syncStatus.stage = "syncing"]
         IN Result(w2, e.out \o <<OkMsg(req.requestId, "sync"),
                                  SyncStatusMsg(w2.syncStatus)>>)

\* handleSync: the status push, then the ok reply

handleSync(w, req) ==
  IF w.network = "none" \/ ~w.hasViewingKey
    THEN postError(w, "Cannot sync without network and viewing key.", req.requestId, FALSE)
    ELSE LET e  == ensureWasmInitialized(w)
             w2 == [e.state EXCEPT !.syncStatus.stage = "syncing"]
         IN Result(w2, e.out \o <<SyncStatusMsg(w2.syncStatus),
                                  OkMsg(req.requestId, "sync")>>)

RoundPercent_Floor(done, total) == (100 * done) \div total

\* Math.round((done / total) * 100) in IEEE doubles: an exact tie k + 0.5 rounds
\* up, except where the double product falls just below the tie.
RoundsDownTies == {14, 28, 56, 57}
RoundPercent(done, total) ==
  LET k == (200 * done + total) \div (2 * total)
  IN IF (200 * done + total) % (2 * total) = 0 /\ (k - 1) \in RoundsDownTies
       THEN k - 1 ELSE k

computeProgress_Remaining(startHeight, latestHeight, targetHeight) ==
  IF \/ startHeight = Undefined
     \/ latestHeight = Undefined
     \/ targetHeight = Undefined
     \/ targetHeight <= startHeight
    THEN 0
    ELSE LET total == targetHeight - startHeight
             done  == targetHeight - latestHeight
         IN IF total <= 0 THEN 0
            ELSE Max(0, Min(100, RoundPercent(done, total)))

computeProgress(startHeight, latestHeight, targetHeight) ==
  IF \/ startHeight = Undefined
     \/ latestHeight = Undefined
     \/ targetHeight = Undefined
     \/ targetHeight <= startHeight
    THEN 0
    ELSE LET total == targetHeight - startHeight
             done  == latestHeight - startHeight
         IN IF total <= 0 THEN 0
            ELSE Max(0, Min(100, RoundPercent(done, total)))

handleIngestBlocks_NoCatchUp(w, req) ==
  IF w.network = "none" \/ ~w.hasViewingKey
    THEN postError(w, "Cannot ingest blocks without network and viewing key.",
                   req.requestId, FALSE)
    ELSE LET e      == ensureWasmInitialized(w)
             start  == IF e.state.syncStartHeight = Undefined
                         THEN req.range.startHeight ELSE e.state.syncStartHeight
             target == req.range.tipHeight
             scanned == req.range.endHeight
             st == [e.state.syncStatus EXCEPT
                      !.latestScannedHeight = scanned,
                      !.latestChainHeight = target,
                      !.stage = "scanning",
                      !.progress = computeProgress(start, scanned, target)]
             w2 == [e.state EXCEPT !.syncStartHeight = start,
                                   !.syncTargetHeight = target,
                                   !.syncStatus = st]
         IN Result(w2, e.out \o <<SyncStatusMsg(st),
                                  SnapshotMsg(req.requestId, Snapshot(w2))>>)

handleIngestBlocks(w, req) ==
  IF w.network = "none" \/ ~w.hasViewingKey
    THEN postError(w, "Cannot ingest blocks without network and viewing key.",
                   req.requestId, FALSE)
    ELSE LET e      == ensureWasmInitialized(w)
             start  == IF e.state.syncStartHeight = Undefined
                         THEN req.range.startHeight ELSE e.state.syncStartHeight
             target == req.range.tipHeight
             scanned == req.range.endHeight
             caughtUp == scanned # Undefined /\ target # Undefined /\ scanned >= target
             st == [e.state.syncStatus EXCEPT
                      !.latestScannedHeight = scanned,
                      !.latestChainHeight = target,
                      !.stage = IF caughtUp THEN "ready" ELSE "scanning",
                      !.progress = IF caughtUp THEN 100
                                   ELSE computeProgress(start, scanned, target)]
             w2 == [e.state EXCEPT !.syncStartHeight = start,
                                   !.syncTargetHeight = target,
                                   !.syncStatus = st]
         IN Result(w2, e.out \o <<SyncStatusMsg(st),
                                  SnapshotMsg(req.requestId, Snapshot(w2))>>)

handleGetDecryptedSnapshot_NeedsInit(w, req) ==
  IF w.network = "none"
    THEN postError(w, "Cannot read the snapshot before init.", req.requestId, FALSE)
    ELSE Result(w, <<SnapshotMsg(req.requestId, Snapshot(w))>>)

handleGetDecryptedSnapshot(w, req) ==
  Result(w, <<SnapshotMsg(req.requestId, Snapshot(w))>>)

handleClearSession_KeepHeights(w, req) ==
  LET w2 == [w EXCEPT !.hasViewingKey = FALSE,
                      !.decryptedTransactions = <<>>,
                      !.balances = "null",
                      !.syncStatus = IdleStatus]
  IN Result(w2, <<SyncStatusMsg(w2.syncStatus), LogMsg("session cleared"),
                  OkMsg(req.requestId, "clearSession")>>)

handleClearSession(w, req) ==
  LET w2 == [w EXCEPT !.hasViewingKey = FALSE,
                      !.decryptedTransactions = <<>>,
                      !.balances = "null",
                      !.syncStartHeight = Undefined,
                      !.syncTargetHeight = Undefined,
                      !.syncStatus = IdleStatus]
  IN Result(w2, <<SyncStatusMsg(w2.syncStatus), LogMsg("session cleared"),
                  OkMsg(req.requestId, "clearSession")>>)

onWorkerMessage_IgnoresUnknown(w, req) ==
  CASE req.action = "init"                 -> handleInit(w, req)
    [] req.action = "setViewingKey"        -> handleSetViewingKey(w, req)
    [] req.action = "sync"                 -> handleSync(w, req)
    [] req.action = "ingestBlocks"         -> handleIngestBlocks(w, req)
    [] req.action = "getDecryptedSnapshot" -> handleGetDecryptedSnapshot(w, req)
    [] req.action = "clearSession"         -> handleClearSession(w, req)
    [] OTHER -> Result(w, <<>>)

\* ctx.onmessage: the switch over request.action
onWorkerMessage(w, req) ==
  CASE req.action = "init"                 -> handleInit(w, req)
    [] req.action = "setViewingKey"        -> handleSetViewingKey(w, req)
    [] req.action = "sync"                 -> handleSync(w, req)
    [] req.action = "ingestBlocks"         -> handleIngestBlocks(w, req)
    [] req.action = "getDecryptedSnapshot" -> handleGetDecryptedSnapshot(w, req)
    [] req.action = "clearSession"         -> handleClearSession(w, req)
    [] OTHER -> postError(w, "Unknown worker action", req.requestId, FALSE)

\* The worker takes the oldest request and runs its handler to completion: the
\* handlers await nothing but already-resolved promises, so no other message
\* event is dispatched in between.
WorkerStep ==
  /\ workerAlive
  /\ toWorker # <<>>
  /\ LET r == onWorkerMessage(worker, Head(toWorker))
     IN /\ worker' = r.state
        /\ toBridge' = toBridge \o r.out
  /\ toWorker' = Tail(toWorker)
  /\ UNCHANGED workerAlive

----------------------------------------------------------------------------
(* lightclient.ts: the bridge *)

OpNames == {"init", "setViewingKey", "fullSync", "getSyncStatus", "getDecryptedSnapshot",
            "clearSession"}

\* the client operation that awaits a request of this action
OpOf(action) == IF action \in {"sync", "ingestBlocks"} THEN "fullSync" ELSE action

NoClearSession ==
  [afterRequest |-> FALSE, afterResolved |-> FALSE, afterResolution |-> FALSE]
ClearSessionPosted ==
  [afterRequest |-> TRUE, afterResolved |-> TRUE, afterResolution |-> TRUE]

EmptyMap == [x \in {} |-> x]
Remove(f, k) == [x \in (DOMAIN f) \ {k} |-> f[x]]

\* the locals of fullSync, and three facts about the run so far: reported, the
\* progress the worker pushed for the run's latest "ingestBlocks" (Undefined
\* before the first); ingestedTo, the endHeight of the latest "ingestBlocks"
\* sent (Undefined before the first); skipped, whether a fetch of the run
\* returned no blocks
InitialSync == [param |-> Undefined, fromHeight |-> Undefined, tipHeight |-> Undefined,
                currentStart |-> Undefined, attempt |-> 0,
                reported |-> Undefined, ingestedTo |-> Undefined, skipped |-> FALSE]

\* The bridge's variables (and the worker handle it owns) as one value, so that
\* the code's functions can be written as functions of it. A step starts with no
\* events.
Bridge ==
  [initialized |-> initialized, viewingKeySet |-> viewingKeySet,
   destroyed |-> destroyed, lastSyncStatus |-> lastSyncStatus,
   pendingRequests |-> pendingRequests, timers |-> timers, nextId |-> nextId,
   settles |-> settles, ops |-> ops, sync |-> sync, events |-> {}, cleared |-> cleared,
   clearOrder |-> clearOrder,
   workerAlive |-> workerAlive, toWorker |-> toWorker]

Becomes(b) ==
  /\ initialized' = b.initialized
  /\ viewingKeySet' = b.viewingKeySet
  /\ destroyed' = b.destroyed
  /\ lastSyncStatus' = b.lastSyncStatus
  /\ pendingRequests' = b.pendingRequests
  /\ timers' = b.timers
  /\ nextId' = b.nextId
  /\ settles' = b.settles
  /\ ops' = b.ops
  /\ sync' = b.sync
  /\ events' = b.events
  /\ cleared' = b.cleared
  /\ clearOrder' = b.clearOrder
  /\ workerAlive' = b.workerAlive
  /\ toWorker' = b.toWorker

\* The call of operation op ends: its promise resolves (outcome "resolved") or
\* rejects (outcome: the error message). tipHeight is fullSync's chain tip.
EndedEvent(op, outcome, tipHeight) ==
  [kind |-> "ended", op |-> op, outcome |-> outcome, tipHeight |-> tipHeight]
Ended(b, op, outcome) ==
  [b EXCEPT !.ops[op] = "idle",
            !.events = @ \cup {EndedEvent(op, outcome, b.sync.tipHeight)},
            !.sync = IF op = "fullSync" THEN InitialSync ELSE @]
Awaits(b, op, pc) == [b EXCEPT !.ops[op] = pc]

\* sendRequest + the promise executor of sendRequestAndWait, both synchronous:
\* post the request, register the pending entry and arm its timeout.
sendRequestAndWait(b, action, payload, expectedType) ==
  [b EXCEPT !.toWorker = Append(@, [requestId |-> b.nextId, action |-> action] @@ payload),
            !.pendingRequests = @ @@ (b.nextId :> [action |-> action,
                                                   expectedType |-> expectedType]),
            !.timers = @ \cup {b.nextId},
            !.settles = @ @@ (b.nextId :> 0),
            !.nextId = @ + 1]

\* resolve() or reject() of the promise of request id is called; only the first
\* call settles the promise and wakes the caller.
CountSettle(b, id) == [b EXCEPT !.settles[id] = @ + 1]

\* destroyWorker: clearTimeout(pending.timeoutId) for every pending entry
DestroyTimers_KeepArmed(t, ids) == t
DestroyTimers(t, ids) == t \ ids

\* destroyWorker: pending.reject(new Error("Worker terminated.")) for every
\* pending entry; each awaiting operation ends with that error
RECURSIVE RejectAll(_, _)
RejectAll(b, ids) ==
  IF ids = {} THEN b
  ELSE LET id == CHOOSE i \in ids : TRUE
           b1 == CountSettle(b, id)
           b2 == IF b.settles[id] > 0 THEN b1
                 ELSE Ended(b1, OpOf(b.pendingRequests[id].action), "Worker terminated.")
       IN RejectAll(b2, ids \ {id})

\* destroyWorker(): terminate the worker and reject every pending request.
destroyWorker(b) ==
  IF b.destroyed THEN b
  ELSE LET ids == DOMAIN b.pendingRequests
           b1  == [b EXCEPT !.destroyed = TRUE,
                            !.workerAlive = FALSE,
                            !.toWorker = <<>>,
                            !.timers = DestroyTimers(@, ids)]
       IN [RejectAll(b1, ids) EXCEPT !.pendingRequests = EmptyMap]

\* fullSync: the status forced after the loop
FinalStatus_WorkerLast(st, tipHeight) == st
FinalStatus(st, tipHeight) ==
  [st EXCEPT !.stage = "ready", !.latestScannedHeight = tipHeight,
             !.latestChainHeight = tipHeight, !.progress = 100]

\* fullSync: the status set when there is nothing to sync (fromHeight > tipHeight)
NothingToSyncStatus(tipHeight) ==
  SyncStatus("ready", 100, tipHeight, tipHeight, NoMessage)

currentEnd(s) == Min(s.currentStart + SYNC_CHUNK_SIZE - 1, s.tipHeight)

NextChunk_Overlap(b) ==
  LET next == currentEnd(b.sync)
  IN IF next <= b.sync.tipHeight
       THEN Awaits([b EXCEPT !.sync.currentStart = next, !.sync.attempt = 0],
                   "fullSync", "fetch")
       ELSE Ended([b EXCEPT !.lastSyncStatus = FinalStatus(@, b.sync.tipHeight)],
                  "fullSync", "resolved")

\* fullSync: currentStart = currentEnd + 1, then the loop test; past the tip the
\* loop ends, the final status is forced and the call resolves.
NextChunk(b) ==
  LET next == currentEnd(b.sync) + 1
  IN IF next <= b.sync.tipHeight
       THEN Awaits([b EXCEPT !.sync.currentStart = next, !.sync.attempt = 0],
                   "fullSync", "fetch")
       ELSE Ended([b EXCEPT !.lastSyncStatus = FinalStatus(@, b.sync.tipHeight)],
                  "fullSync", "resolved")

\* clearSession after its await
AfterClearSession_KeepWorker(b) ==
  LET c == [b EXCEPT !.viewingKeySet = FALSE, !.lastSyncStatus = IdleStatus]
  IN [Ended(c, "clearSession", "resolved") EXCEPT !.cleared = TRUE]
AfterClearSession(b) ==
  LET c == [b EXCEPT !.viewingKeySet = FALSE, !.lastSyncStatus = IdleStatus]
  IN [Ended(destroyWorker(c), "clearSession", "resolved") EXCEPT !.cleared = TRUE]

\* What the caller of sendRequestAndWait(action, ...) does once the promise
\* resolves with msg: the .then type check, then the rest of the operation up to
\* its next await.
Resolved(b, action, expectedType, msg) ==
  IF msg.type # expectedType
    THEN Ended(b, OpOf(action), "Unexpected worker response type")
  ELSE CASE action = "init" ->
              Ended([b EXCEPT !.initialized = TRUE], "init", "resolved")
         [] action = "setViewingKey" ->
              Ended([b EXCEPT !.viewingKeySet = TRUE,
                              !.clearOrder.afterResolved = b.clearOrder.afterRequest,
                              !.clearOrder.afterResolution = FALSE],
                    "setViewingKey", "resolved")
         [] action = "sync" ->
              Awaits([b EXCEPT !.sync.currentStart = b.sync.fromHeight,
                               !.sync.attempt = 0], "fullSync", "fetch")
         [] action = "ingestBlocks" ->
              NextChunk([b EXCEPT !.sync.reported = b.lastSyncStatus.progress])
         [] action = "getDecryptedSnapshot" ->
              Ended(b, "getDecryptedSnapshot", "resolved")
         [] action = "clearSession" -> AfterClearSession(b)

Rejected_StaysSuspended(b, action, err) == b
\* The caller is rejected: the awaiting operation ends with the error.
Rejected(b, action, err) == Ended(b, OpOf(action), err)

HasRequestId(m) == "requestId" \in DOMAIN m /\ m.requestId # NoRequestId

\* worker.onmessage: message.type === "error" && !message.requestId
IsGlobalError_Never(m) == FALSE
IsGlobalError(m) == m.type = "error" /\ ~HasRequestId(m)

\* worker.onmessage: clearTimeout(pending.timeoutId)
OnMessageTimers_KeepArmed(t, id) == t
OnMessageTimers(t, id) == t \ {id}

DiscardedEvent(id) == [kind |-> "discarded", requestId |-> id]

onmessage_IgnoresPush(b, m) ==
  IF m.type = "syncStatus" THEN b
  ELSE IF m.type = "log" THEN b
  ELSE IF IsGlobalError(m)
    THEN [b EXCEPT !.lastSyncStatus = [@ EXCEPT !.stage = "error",
                                                !.errorMessage = m.message]]
  ELSE IF ~HasRequestId(m) THEN b
  ELSE IF m.requestId \notin DOMAIN b.pendingRequests
    THEN [b EXCEPT !.events = @ \cup {DiscardedEvent(m.requestId)}]
  ELSE LET id == m.requestId
           p  == b.pendingRequests[id]
           b1 == [b EXCEPT !.pendingRequests = Remove(@, id),
                           !.timers = OnMessageTimers(@, id)]
           b2 == CountSettle(b1, id)
       IN IF b.settles[id] > 0 THEN b2
          ELSE IF m.type = "error" THEN Rejected(b2, p.action, m.message)
          ELSE Resolved(b2, p.action, p.expectedType, m)

\* worker.onmessage, for one delivered message
onmessage(b, m) ==
  IF m.type = "syncStatus" THEN [b EXCEPT !.lastSyncStatus = m.payload]
  ELSE IF m.type = "log" THEN b
  ELSE IF IsGlobalError(m)
    THEN [b EXCEPT !.lastSyncStatus = [@ EXCEPT !.stage = "error",
                                                !.errorMessage = m.message]]
  ELSE IF ~HasRequestId(m) THEN b
  ELSE IF m.requestId \notin DOMAIN b.pendingRequests
    THEN [b EXCEPT !.events = @ \cup {DiscardedEvent(m.requestId)}]
  ELSE LET id == m.requestId
           p  == b.pendingRequests[id]
           b1 == [b EXCEPT !.pendingRequests = Remove(@, id),
                           !.timers = OnMessageTimers(@, id)]
           b2 == CountSettle(b1, id)
       IN IF b.settles[id] > 0 THEN b2
          ELSE IF m.type = "error" THEN Rejected(b2, p.action, m.message)
          ELSE Resolved(b2, p.action, p.expectedType, m)

\* A message event on the bridge: the oldest undelivered worker message.
BridgeOnMessage ==
  /\ toBridge # <<>>
  /\ toBridge' = Tail(toBridge)
  /\ Becomes(onmessage(Bridge, Head(toBridge)))
  /\ UNCHANGED <<worker, poolVars, sessionVars>>

\* the timer callback of sendRequestAndWait: pendingRequests.delete(requestId)
TimeoutPending_KeepEntry(p, id) == p
TimeoutPending(p, id) == Remove(p, id)

\* sendRequestAndWait: the action in the timeout error of request id
ActionOf(b, id) ==
  IF id \in DOMAIN b.pendingRequests THEN b.pendingRequests[id].action ELSE "none"

\* The timeout of request id fires.
Timeout(id) ==
  /\ id \in timers
  /\ LET b1 == [Bridge EXCEPT !.timers = @ \ {id},
                              !.pendingRequests = TimeoutPending(@, id)]
         b2 == CountSettle(b1, id)
     IN Becomes(IF settles[id] > 0 THEN b2
                ELSE Rejected(b2, ActionOf(Bridge, id), "timed out"))
  /\ UNCHANGED <<worker, toBridge, poolVars, sessionVars>>

\* window "beforeunload": destroyWorker()
BeforeUnload ==
  /\ ~destroyed
  /\ Becomes(destroyWorker(Bridge))
  /\ UNCHANGED <<worker, toBridge, poolVars, sessionVars>>

\* worker.terminate() empties the queue of messages not yet delivered; a message
\* already on its way may still be delivered, so both outcomes are kept:
\* the undelivered messages stay in toBridge, and this step drops them.
DropUndelivered ==
  /\ ~workerAlive
  /\ toBridge # <<>>
  /\ toBridge' = <<>>
  /\ events' = {}
  /\ UNCHANGED <<worker, workerAlive, toWorker, initialized, viewingKeySet, destroyed,
                 lastSyncStatus, pendingRequests, timers, nextId, settles, ops, sync,
                 cleared, clearOrder, poolVars, sessionVars>>

(* The client operations. Each has one slot: a second call of the same operation
   starts only after the first has ended. *)

\* options.network of createZRayLightClient
Network == "mainnet"

DestroyedError == "ZRayLightClient instance has been destroyed."

\* the bound on generateRequestId
CanSend == nextId <= MaxRequests

\* chain tips the network client may report; Undefined stands for a value that is
\* not a finite non-negative number
TipHeights == {0, SYNC_CHUNK_SIZE - 1, MaxChunks * SYNC_CHUNK_SIZE + 2000}
\* params.fromHeight of fullSync
FromHeights == {Undefined, SYNC_CHUNK_SIZE}

init(b) ==
  IF b.destroyed THEN Ended(b, "init", DestroyedError)
  ELSE IF b.initialized THEN Ended(b, "init", "resolved")
  ELSE Awaits(sendRequestAndWait(b, "init", [network |-> Network], "ok"),
              "init", "waiting")

CallInit ==
  /\ ops["init"] = "idle"
  /\ destroyed \/ initialized \/ CanSend
  /\ Becomes(init(Bridge))
  /\ UNCHANGED <<worker, toBridge, poolVars, sessionVars>>

setViewingKey_NoRequest(b, ufvk) ==
  IF b.destroyed THEN Ended(b, "setViewingKey", DestroyedError)
  ELSE IF ~b.initialized
    THEN Ended(b, "setViewingKey",
               "ZRayLightClient must be initialized before setting a viewing key.")
  ELSE Ended([b EXCEPT !.viewingKeySet = TRUE], "setViewingKey", "resolved")

setViewingKey(b, ufvk) ==
  IF b.destroyed THEN Ended(b, "setViewingKey", DestroyedError)
  ELSE IF ~b.initialized
    THEN Ended(b, "setViewingKey",
               "ZRayLightClient must be initialized before setting a viewing key.")
  ELSE Awaits(sendRequestAndWait(
                 [b EXCEPT !.clearOrder.afterRequest = FALSE],
                 "setViewingKey", [ufvk |-> ufvk], "ok"),
              "setViewingKey", "waiting")

CallSetViewingKey ==
  /\ ops["setViewingKey"] = "idle"
  /\ destroyed \/ ~initialized \/ CanSend
  /\ Becomes(setViewingKey(Bridge, "ufvk"))
  /\ UNCHANGED <<worker, toBridge, poolVars, sessionVars>>

\* The call of operation op resolves with value.
ReturnedEvent(op, value) == [kind |-> "returned", op |-> op, value |-> value]
Returns(b, op, value) ==
  [Ended(b, op, "resolved") EXCEPT !.events = @ \cup {ReturnedEvent(op, value)}]

getSyncStatus_NoAssert(b) == Returns(b, "getSyncStatus", b.lastSyncStatus)
getSyncStatus_Initial(b) ==
  IF b.destroyed THEN Ended(b, "getSyncStatus", DestroyedError)
  ELSE Returns(b, "getSyncStatus", IdleStatus)
\* getSyncStatus(): assertNotDestroyed, then the cached status
getSyncStatus(b) ==
  IF b.destroyed THEN Ended(b, "getSyncStatus", DestroyedError)
  ELSE Returns(b, "getSyncStatus", b.lastSyncStatus)

CallGetSyncStatus ==
  /\ ops["getSyncStatus"] = "idle"
  /\ Becomes(getSyncStatus(Bridge))
  /\ UNCHANGED <<worker, toBridge, poolVars, sessionVars>>

getDecryptedSnapshot(b) ==
  IF b.destroyed THEN Ended(b, "getDecryptedSnapshot", DestroyedError)
  ELSE IF ~b.initialized \/ ~b.viewingKeySet
    THEN Ended(b, "getDecryptedSnapshot", "resolved")
  ELSE Awaits(sendRequestAndWait(b, "getDecryptedSnapshot", <<>>, "snapshot"),
              "getDecryptedSnapshot", "waiting")

CallGetDecryptedSnapshot ==
  /\ ops["getDecryptedSnapshot"] = "idle"
  /\ destroyed \/ ~initialized \/ ~viewingKeySet \/ CanSend
  /\ Becomes(getDecryptedSnapshot(Bridge))
  /\ UNCHANGED <<worker, toBridge, poolVars, sessionVars>>

clearSession(b) ==
  IF b.destroyed THEN Ended(b, "clearSession", DestroyedError)
  ELSE Awaits(sendRequestAndWait([b EXCEPT !.clearOrder = ClearSessionPosted],
                                 "clearSession", <<>>, "ok"),
              "clearSession", "waiting")

CallClearSession ==
  /\ ops["clearSession"] = "idle"
  /\ destroyed \/ CanSend
  /\ Becomes(clearSession(Bridge))
  /\ UNCHANGED <<worker, toBridge, poolVars, sessionVars>>

\* fullSync, up to its first await (getLatestBlockHeight)
fullSync(b, from) ==
  IF b.destroyed THEN Ended(b, "fullSync", DestroyedError)
  ELSE IF ~b.initialized
    THEN Ended(b, "fullSync", "ZRayLightClient must be initialized before syncing.")
  ELSE IF ~b.viewingKeySet
    THEN Ended(b, "fullSync", "ZRayLightClient requires a viewing key before syncing.")
  ELSE Awaits([b EXCEPT !.sync = [InitialSync EXCEPT !.param = from]], "fullSync", "tip")

CallFullSync ==
  /\ ops["fullSync"] = "idle"
  /\ \E from \in FromHeights : Becomes(fullSync(Bridge, from))
  /\ UNCHANGED <<worker, toBridge, poolVars, sessionVars>>

\* client.sync(params): return this.fullSync(params), on the client object
syncMethod_NoParams(b, from) == fullSync(b, Undefined)
syncMethod(b, from) == fullSync(b, from)

CallSync ==
  /\ ops["fullSync"] = "idle"
  /\ \E from \in FromHeights : Becomes(syncMethod(Bridge, from))
  /\ UNCHANGED <<worker, toBridge, poolVars, sessionVars>>

\* fullSync step 2: the starting height
StartHeight(explicitFrom, tipHeight) ==
  IF explicitFrom # Undefined /\ explicitFrom >= 0
    THEN explicitFrom
    ELSE Max(0, tipHeight - DEFAULT_LOOKBACK_BLOCKS)

AfterTip_NoShortCircuit(b, tipHeight) ==
  IF tipHeight = Undefined \/ tipHeight < 0
    THEN Ended(b, "fullSync", "Invalid latest block height returned by lightwalletd.")
  ELSE LET from == StartHeight(b.sync.param, tipHeight)
           b1   == [b EXCEPT !.sync.tipHeight = tipHeight, !.sync.fromHeight = from]
       IN IF b.destroyed
            THEN Ended(b1, "fullSync", DestroyedError)
          ELSE Awaits(sendRequestAndWait(b1, "sync", [fromHeight |-> from], "ok"),
                      "fullSync", "waitSync")

\* fullSync, from the return of getLatestBlockHeight to its next await
AfterTip(b, tipHeight) ==
  IF tipHeight = Undefined \/ tipHeight < 0
    THEN Ended(b, "fullSync", "Invalid latest block height returned by lightwalletd.")
  ELSE LET from == StartHeight(b.sync.param, tipHeight)
           b1   == [b EXCEPT !.sync.tipHeight = tipHeight, !.sync.fromHeight = from]
       IN IF from > tipHeight
            THEN Ended([b1 EXCEPT !.lastSyncStatus = NothingToSyncStatus(tipHeight)],
                       "fullSync", "resolved")
          ELSE IF b.destroyed
            THEN Ended(b1, "fullSync", DestroyedError)
          ELSE Awaits(sendRequestAndWait(b1, "sync", [fromHeight |-> from], "ok"),
                      "fullSync", "waitSync")

\* getLatestBlockHeight() returns a height
FullSyncTip ==
  /\ ops["fullSync"] = "tip"
  /\ \E tipHeight \in TipHeights \cup {Undefined} :
       /\ CanSend \/ destroyed \/ tipHeight = Undefined
            \/ StartHeight(sync.param, tipHeight) > tipHeight
       /\ Becomes(AfterTip(Bridge, tipHeight))
  /\ UNCHANGED <<worker, toBridge, poolVars, sessionVars>>

\* getLatestBlockHeight() throws (every endpoint failed)
FullSyncTipFails ==
  /\ ops["fullSync"] = "tip"
  /\ Becomes(Ended(Bridge, "fullSync", "network error"))
  /\ UNCHANGED <<worker, toBridge, poolVars, sessionVars>>

AfterFetch_NoAwait(b, blocks) ==
  IF blocks > 0
    THEN IF b.destroyed
           THEN Ended(b, "fullSync", DestroyedError)
           ELSE NextChunk(sendRequestAndWait(
                            [b EXCEPT !.sync.ingestedTo = currentEnd(b.sync)],
                            "ingestBlocks",
                            [blocks |-> blocks,
                             range |-> [startHeight |-> b.sync.currentStart,
                                        endHeight |-> currentEnd(b.sync),
                                        tipHeight |-> b.sync.tipHeight]], "snapshot"))
    ELSE NextChunk([b EXCEPT !.sync.skipped = TRUE])

\* fullSync, from a successful return of fetchBlocksWithRetries to its next await;
\* blocks is the number of blocks fetched
AfterFetch(b, blocks) ==
  IF blocks > 0
    THEN IF b.destroyed
           THEN Ended(b, "fullSync", DestroyedError)
           ELSE Awaits(sendRequestAndWait(
                          [b EXCEPT !.sync.ingestedTo = currentEnd(b.sync)],
                          "ingestBlocks",
                          [blocks |-> blocks,
                           range |-> [startHeight |-> b.sync.currentStart,
                                      endHeight |-> currentEnd(b.sync),
                                      tipHeight |-> b.sync.tipHeight]], "snapshot"),
                       "fullSync", "waitIngest")
    ELSE NextChunk([b EXCEPT !.sync.skipped = TRUE])

\* fetchBlocksWithRetries: an attempt of getCompactBlocks returns
FetchReturns ==
  /\ ops["fullSync"] = "fetch"
  /\ \E blocks \in {0, currentEnd(sync) - sync.currentStart + 1} :
       /\ CanSend \/ destroyed \/ blocks = 0
       /\ Becomes(AfterFetch(Bridge, blocks))
  /\ UNCHANGED <<worker, toBridge, poolVars, sessionVars>>

\* fetchBlocksWithRetries: the error thrown once the attempts are used up
FetchError(start, end) ==
  "Failed to fetch compact blocks for range [" \o ToString(start) \o ", "
    \o ToString(end) \o "] after " \o ToString(MAX_RETRIES_PER_CHUNK) \o " attempts."

fetchFailed_OneMore(b) ==
  IF b.sync.attempt + 1 > MAX_RETRIES_PER_CHUNK
    THEN Ended(b, "fullSync", FetchError(b.sync.currentStart, currentEnd(b.sync)))
    ELSE [b EXCEPT !.sync.attempt = @ + 1]

\* fetchBlocksWithRetries: the catch block, after an attempt of getCompactBlocks threw
fetchFailed(b) ==
  IF b.sync.attempt + 1 >= MAX_RETRIES_PER_CHUNK
    THEN Ended(b, "fullSync", FetchError(b.sync.currentStart, currentEnd(b.sync)))
    ELSE [b EXCEPT !.sync.attempt = @ + 1]

FetchFails ==
  /\ ops["fullSync"] = "fetch"
  /\ Becomes(fetchFailed(Bridge))
  /\ UNCHANGED <<worker, toBridge, poolVars, sessionVars>>

----------------------------------------------------------------------------
(* lightwalletd/client.ts: the endpoint pool. state.endpoints is an array; an
   endpoint is named by its index in it. One withFailover call runs at a time. *)

NoEndpoint == 0

\* latencies a successful probe may measure (ms)
Latencies == {80, 200}
\* block height a successful probe reports
ProbeHeight == 1234567

\* createLightwalletdState: every endpoint starts unhealthy, nothing recorded
EndpointRuntimeState(primary) ==
  [primary |-> primary, healthy |-> FALSE, lastError |-> NoMessage,
   lastLatencyMs |-> Undefined, lastBlockHeight |-> Undefined]

\* the pools of 1..max endpoints, any of them flagged primary
Pools(max) == UNION {[1..n -> {EndpointRuntimeState(p) : p \in BOOLEAN}] : n \in 1..max}

\* outcomes of one round of health probes: per endpoint a latency, or Undefined
\* when the probe failed
ProbeRounds(eps) == [DOMAIN eps -> Latencies \cup {Undefined}]

\* selectBestEndpoint: what a probe does to its entry
Probed_NoError(entry, latency) ==
  IF latency # Undefined
    THEN [entry EXCEPT !.healthy = TRUE, !.lastLatencyMs = latency,
                       !.lastBlockHeight = ProbeHeight, !.lastError = NoMessage]
    ELSE [entry EXCEPT !.healthy = FALSE]
Probed(entry, latency) ==
  IF latency # Undefined
    THEN [entry EXCEPT !.healthy = TRUE, !.lastLatencyMs = latency,
                       !.lastBlockHeight = ProbeHeight, !.lastError = NoMessage]
    ELSE [entry EXCEPT !.healthy = FALSE, !.lastError = "healthcheck failed"]

\* selectBestEndpoint: the sort comparator, a before b
Latency(e) == IF e.lastLatencyMs = Undefined THEN 1000000 ELSE e.lastLatencyMs
Before_LatencyOnly(a, b) == Latency(a) < Latency(b)
Before(a, b) ==
  IF a.primary # b.primary THEN a.primary
  ELSE Latency(a) < Latency(b)

\* healthy.sort(...)[0]: the sort is stable, so among equals the first in array
\* order comes first
First(eps, healthy) ==
  CHOOSE i \in healthy :
    \A k \in healthy \ {i} :
      Before(eps[i], eps[k]) \/ (~Before(eps[k], eps[i]) /\ i < k)

\* selectBestEndpoint(state): the probed entries, the new active endpoint, and
\* whether it threw "No healthy lightwalletd endpoints available"
selectBestEndpoint_ClearsActive(eps, active, round) ==
  LET probed  == [i \in DOMAIN eps |-> Probed(eps[i], round[i])]
      healthy == {i \in DOMAIN eps : probed[i].healthy}
  IN IF healthy = {}
       THEN [endpoints |-> probed, activeEndpoint |-> NoEndpoint, threw |-> TRUE]
       ELSE [endpoints |-> probed, activeEndpoint |-> First(probed, healthy),
             threw |-> FALSE]

selectBestEndpoint(eps, active, round) ==
  LET probed  == [i \in DOMAIN eps |-> Probed(eps[i], round[i])]
      healthy == {i \in DOMAIN eps : probed[i].healthy}
  IN IF healthy = {}
       THEN [endpoints |-> probed, activeEndpoint |-> active, threw |-> TRUE]
       ELSE [endpoints |-> probed, activeEndpoint |-> First(probed, healthy),
             threw |-> FALSE]

NoError == [kind |-> "none"]
ExhaustionError == [kind |-> "No healthy lightwalletd endpoints available"]
\* the error thrown by the operation when run against endpoint i
OperationError(i) == [kind |-> "request failed", endpoint |-> i]

IdleCall ==
  [pc |-> "idle", tried |-> {}, current |-> NoEndpoint, err |-> NoError,
   selection |-> "none", reselected |-> FALSE, ran |-> <<>>, result |-> "none",
   made |-> 0]

\* the count of operation attempts per endpoint saturates at 2
Ran(c, i) == [c.ran EXCEPT ![i] = Min(@ + 1, 2)]

\* a withFailover call starts; with no active endpoint it first selects one
CallWithFailover ==
  /\ call.pc = "idle"
  /\ call.made < MaxCalls
  /\ call' = [IdleCall EXCEPT !.pc = IF activeEndpoint = NoEndpoint THEN "select" ELSE "attempt",
                              !.made = call.made + 1,
                              !.ran = [i \in DOMAIN endpoints |-> 0]]
  /\ UNCHANGED <<endpoints, activeEndpoint, workerVars, bridgeVars, sessionVars>>

\* withFailover: await selectBestEndpoint(state, timeoutMs) before the loop
InitialSelection ==
  /\ call.pc = "select"
  /\ \E round \in ProbeRounds(endpoints) :
       LET s == selectBestEndpoint(endpoints, activeEndpoint, round)
       IN /\ endpoints' = s.endpoints
          /\ activeEndpoint' = s.activeEndpoint
          /\ call' = IF s.threw
                       THEN [call EXCEPT !.pc = "idle", !.selection = "threw",
                                         !.result = "raised", !.err = ExhaustionError]
                       ELSE [call EXCEPT !.pc = "attempt", !.selection = "selected"]
  /\ UNCHANGED <<workerVars, bridgeVars, sessionVars>>

\* withFailover: the operation, run against the active endpoint, succeeds
AttemptSucceeds ==
  /\ call.pc = "attempt"
  /\ call' = [call EXCEPT !.pc = "idle", !.result = "returned",
                          !.current = activeEndpoint,
                          !.tried = @ \cup {activeEndpoint},
                          !.ran = Ran(call, activeEndpoint)]
  /\ UNCHANGED <<endpoints, activeEndpoint, workerVars, bridgeVars, sessionVars>>

healthyCandidates_Retried(eps, tried) == {i \in DOMAIN eps : eps[i].healthy}
\* withFailover: healthy candidates not tried in this call, in array order
healthyCandidates(eps, tried) == {i \in DOMAIN eps : eps[i].healthy /\ i \notin tried}

SetMin(S) == CHOOSE i \in S : \A k \in S : i <= k

\* withFailover: if (tried.size >= state.endpoints.length) throw err
AfterFailure_OffByOne(c, eps) ==
  IF Cardinality(c.tried) + 1 >= Cardinality(DOMAIN eps)
    THEN [c EXCEPT !.pc = "idle", !.result = "raised"]
    ELSE [c EXCEPT !.pc = "attempt"]
AfterFailure(c, eps) ==
  IF Cardinality(c.tried) >= Cardinality(DOMAIN eps)
    THEN [c EXCEPT !.pc = "idle", !.result = "raised"]
    ELSE [c EXCEPT !.pc = "attempt"]

\* withFailover: the operation, run against the active endpoint, throws
AttemptFails ==
  /\ call.pc = "attempt"
  /\ LET current == activeEndpoint
         tried   == call.tried \cup {current}
         eps     == [endpoints EXCEPT ![current] =
                       [@ EXCEPT !.healthy = FALSE, !.lastError = "request failed"]]
         cands   == healthyCandidates(eps, tried)
         c       == [call EXCEPT !.tried = tried, !.current = current,
                                 !.err = OperationError(current),
                                 !.ran = Ran(call, current)]
     IN /\ endpoints' = eps
        /\ IF cands = {}
             THEN /\ activeEndpoint' = activeEndpoint
                  /\ call' = [c EXCEPT !.pc = "reselect"]
             ELSE /\ activeEndpoint' = SetMin(cands)
                  /\ call' = AfterFailure(c, eps)
  /\ UNCHANGED <<workerVars, bridgeVars, sessionVars>>

\* withFailover: await selectBestEndpoint(state, timeoutMs) in the catch block;
\* when it throws, the operation's error is thrown instead
Reselection ==
  /\ call.pc = "reselect"
  /\ \E round \in ProbeRounds(endpoints) :
       LET s == selectBestEndpoint(endpoints, activeEndpoint, round)
       IN /\ endpoints' = s.endpoints
          /\ activeEndpoint' = s.activeEndpoint
          /\ call' = IF s.threw
                       THEN [call EXCEPT !.pc = "idle", !.selection = "threw",
                                         !.reselected = TRUE, !.result = "raised"]
                       ELSE AfterFailure([call EXCEPT !.selection = "selected",
                                                      !.reselected = TRUE], s.endpoints)
  /\ UNCHANGED <<workerVars, bridgeVars, sessionVars>>

\* the pool is not used
PoolInit ==
  /\ endpoints = <<EndpointRuntimeState(TRUE)>>
  /\ activeEndpoint = NoEndpoint
  /\ call = IdleCall

----------------------------------------------------------------------------
(* The session provider: state/session-types.ts and state/session-context.tsx.
   sessionId and the timestamps are left out. *)

SessionError(code, message, fatal) == [code |-> code, message |-> message, fatal |-> fatal]
\* lastError: null
NoSessionError == SessionError("null", "null", FALSE)

INITIAL_ZRAY_SESSION_STATE ==
  [phase |-> "NO_SESSION", network |-> "null", hasViewingKey |-> FALSE,
   lastError |-> NoSessionError]

sessionReducer(state, action) ==
  CASE action.type = "SESSION_INIT" ->
         [phase |-> "INITIALIZING", network |-> action.network,
          hasViewingKey |-> action.hasViewingKey, lastError |-> NoSessionError]
    [] action.type = "SESSION_SET_PHASE" ->
         [state EXCEPT !.phase = action.phase]
    [] action.type = "SESSION_SET_ERROR" ->
         [state EXCEPT !.lastError = action.error,
                       !.phase = IF action.error # NoSessionError THEN "ERROR" ELSE @]
    [] action.type = "SESSION_CLEAR" -> INITIAL_ZRAY_SESSION_STATE
    [] OTHER -> state

\* createZRayLightClient(options): a new bridge with a new worker
NewLightClient ==
  [initialized |-> FALSE, viewingKeySet |-> FALSE, destroyed |-> FALSE,
   lastSyncStatus |-> IdleStatus, pendingRequests |-> EmptyMap, timers |-> {},
   nextId |-> 1, settles |-> EmptyMap, ops |-> [o \in OpNames |-> "idle"],
   sync |-> InitialSync, events |-> {}, cleared |-> FALSE,
   clearOrder |-> NoClearSession, workerAlive |-> TRUE, toWorker |-> <<>>]

\* startSession after "await lightClient.setViewingKey({ ufvk })": the two
\* dispatches of the try block, or the one of the catch block
AfterSetViewingKey(state, outcome) ==
  IF outcome = "resolved"
    THEN sessionReducer(
           sessionReducer(state, [type |-> "SESSION_SET_PHASE", phase |-> "READY_TO_SYNC"]),
           [type |-> "SESSION_SET_ERROR", error |-> NoSessionError])
    ELSE sessionReducer(state,
           [type |-> "SESSION_SET_ERROR",
            error |-> SessionError("SESSION_INIT_FAILED", outcome, TRUE)])

\* the outcomes of the setViewingKey call that ended in these events
KeyOutcomes(ev) == {e.outcome : e \in {x \in ev : x.kind = "ended" /\ x.op = "setViewingKey"}}

\* destroyLightClientIfPossible(lightClientRef.current): the client object has
\* no destroy method, so nothing is called; the client that is about to be
\* dropped leaves its worker running unless the client had terminated it
Dropped == IF lightClientRef = "client" /\ workerAlive THEN 1 ELSE 0

\* startSession({ ufvk, network }) up to its first suspension: SESSION_INIT,
\* ensureClientsForNetwork (the previous client has no destroy() and is only
\* dropped), then the call of setViewingKey on the new client. When that call
\* rejects at once the catch block runs in the same turn.
StartSession ==
  /\ startSessionPc = "idle"
  /\ orphans' = orphans + Dropped
  /\ orphans' <= MaxOrphans
  /\ \E network \in {Network} :
       LET s1 == sessionReducer(session, [type |-> "SESSION_INIT", network |-> network,
                                          hasViewingKey |-> TRUE])
           b  == setViewingKey(NewLightClient, "ufvk")
           out == KeyOutcomes(b.events)
       IN IF out = {}
            THEN /\ Becomes(b)
                 /\ session' = s1
                 /\ startSessionPc' = "key"
            ELSE /\ Becomes([b EXCEPT !.events =
                               @ \cup {EndedEvent("startSession", o, Undefined) : o \in out}])
                 /\ session' = AfterSetViewingKey(s1, CHOOSE o \in out : TRUE)
                 /\ startSessionPc' = "idle"
  /\ lightClientRef' = "client"
  /\ worker' = InitialWorkerState
  /\ toBridge' = <<>>
  /\ endpoints' = <<EndpointRuntimeState(TRUE)>>
  /\ activeEndpoint' = NoEndpoint
  /\ call' = IdleCall

\* a message event on the bridge of the provider's client; when it settles the
\* setViewingKey call that startSession awaits, startSession goes on
SessionOnMessage ==
  /\ toBridge # <<>>
  /\ toBridge' = Tail(toBridge)
  /\ LET b   == onmessage(Bridge, Head(toBridge))
         out == KeyOutcomes(b.events)
     IN IF startSessionPc = "key" /\ out # {}
          THEN /\ Becomes([b EXCEPT !.events =
                             @ \cup {EndedEvent("startSession", o, Undefined) : o \in out}])
               /\ session' = AfterSetViewingKey(session, CHOOSE o \in out : TRUE)
               /\ startSessionPc' = "idle"
          ELSE /\ Becomes(b)
               /\ UNCHANGED <<session, startSessionPc>>
  /\ UNCHANGED <<worker, poolVars, lightClientRef, orphans>>

\* getLightClient(): the holder of the provider's client calls an operation
SessionClientCall ==
  /\ lightClientRef = "client"
  /\ \/ CallInit
     \/ CallSetViewingKey
     \/ CallGetDecryptedSnapshot

\* the provider's clearSession(): the client has no destroy() and is only
\* dropped, its worker left running; SESSION_CLEAR
ClearProviderSession ==
  /\ startSessionPc = "idle"
  /\ lightClientRef = "client"
  /\ orphans' = orphans + Dropped
  /\ orphans' <= MaxOrphans
  /\ lightClientRef' = "null"
  /\ session' = sessionReducer(session, [type |-> "SESSION_CLEAR"])
  /\ events' = {}
  /\ UNCHANGED <<workerVars, initialized, viewingKeySet, destroyed, lastSyncStatus,
                 pendingRequests, timers, nextId, settles, ops, sync, cleared,
                 clearOrder, poolVars, startSessionPc>>

SessionInit ==
  /\ session = INITIAL_ZRAY_SESSION_STATE
  /\ lightClientRef = "null"
  /\ startSessionPc = "idle"
  /\ orphans = 0

----------------------------------------------------------------------------
(* Specifications *)

WorkerInit ==
  /\ worker = InitialWorkerState
  /\ workerAlive = TRUE
  /\ toWorker = <<>>
  /\ toBridge = <<>>

BridgeInit ==
  /\ initialized = FALSE
  /\ viewingKeySet = FALSE
  /\ destroyed = FALSE
  /\ lastSyncStatus = IdleStatus
  /\ pendingRequests = EmptyMap
  /\ timers = {}
  /\ nextId = 1
  /\ settles = EmptyMap
  /\ ops = [o \in OpNames |-> "idle"]
  /\ sync = InitialSync
  /\ events = {}
  /\ cleared = FALSE
  /\ clearOrder = NoClearSession

Init == WorkerInit /\ BridgeInit /\ PoolInit /\ SessionInit

\* The worker handles a request posted by the bridge.
WorkerHandles ==
  /\ WorkerStep
  /\ events' = {}
  /\ UNCHANGED <<initialized, viewingKeySet, destroyed, lastSyncStatus, pendingRequests,
                 timers, nextId, settles, ops, sync, cleared, clearOrder,
                 poolVars, sessionVars>>

Next ==
  \/ CallInit
  \/ CallSetViewingKey
  \/ CallFullSync
  \/ CallSync
  \/ FullSyncTip
  \/ FullSyncTipFails
  \/ FetchReturns
  \/ FetchFails
  \/ CallGetSyncStatus
  \/ CallGetDecryptedSnapshot
  \/ CallClearSession
  \/ WorkerHandles
  \/ BridgeOnMessage
  \/ \E id \in timers : Timeout(id)
  \/ BeforeUnload
  \/ DropUndelivered

Spec == Init /\ [][Next]_vars

(* The worker alone: its client posts any request, one at a time, and takes
   the worker's messages. *)

Networks == {"mainnet", "testnet"}
\* range of an "ingestBlocks" request: chunks of a run, and ranges no run sends
Ranges ==
  {[startHeight |-> a, endHeight |-> Min(a + SYNC_CHUNK_SIZE - 1, t), tipHeight |-> t] :
     a \in {0, SYNC_CHUNK_SIZE}, t \in {0, MaxChunks * SYNC_CHUNK_SIZE}}

Requests(id) ==
  {[requestId |-> id, action |-> "init", network |-> n] : n \in Networks}
  \cup {[requestId |-> id, action |-> "setViewingKey", ufvk |-> "ufvk"]}
  \cup {[requestId |-> id, action |-> "sync", fromHeight |-> f] : f \in FromHeights}
  \cup {[requestId |-> id, action |-> "ingestBlocks", blocks |-> 1, range |-> r] : r \in Ranges}
  \cup {[requestId |-> id, action |-> a] : a \in {"getDecryptedSnapshot", "clearSession", "unknown"}}

\* the client posts a request once the worker has answered the previous one
PostRequest ==
  /\ toWorker = <<>>
  /\ toBridge = <<>>
  /\ nextId <= MaxWorkerRequests
  /\ \E req \in Requests(nextId) : toWorker' = <<req>>
  /\ nextId' = nextId + 1
  /\ UNCHANGED <<worker, workerAlive, toBridge, initialized, viewingKeySet, destroyed,
                 lastSyncStatus, pendingRequests, timers, settles, ops, sync, events,
                 cleared, clearOrder, poolVars, sessionVars>>

\* the client takes the worker's oldest message
TakeMessage ==
  /\ toBridge # <<>>
  /\ toBridge' = Tail(toBridge)
  /\ UNCHANGED <<worker, workerAlive, toWorker, bridgeVars, poolVars, sessionVars>>

WorkerAnswers == WorkerStep /\ UNCHANGED <<bridgeVars, poolVars, sessionVars>>

NextWorker == PostRequest \/ WorkerAnswers \/ TakeMessage

SpecWorker == Init /\ [][NextWorker]_vars

(* The endpoint pool alone, for every pool. *)

InitPool ==
  /\ WorkerInit
  /\ BridgeInit
  /\ SessionInit
  /\ endpoints \in Pools(MaxEndpoints)
  /\ activeEndpoint = NoEndpoint
  /\ call = IdleCall

NextPool ==
  \/ CallWithFailover
  \/ InitialSelection
  \/ AttemptSucceeds
  \/ AttemptFails
  \/ Reselection

SpecPool == InitPool /\ [][NextPool]_vars

\* Every awaited network call ends (fetchWithTimeout aborts it at its timeout),
\* and the event loop then runs the continuation.
FairSpecPool ==
  /\ SpecPool
  /\ WF_vars(InitialSelection)
  /\ WF_vars(AttemptSucceeds \/ AttemptFails)
  /\ WF_vars(Reselection)

(* fullSync runs against a responsive worker: no timeout fires and the page is
   not unloaded. The client operations are called one after the other, except
   that setViewingKey may be called while a run is in progress. *)

\* no client operation is running
Quiet == \A o \in OpNames : ops[o] = "idle"

CanSendInRun == nextId <= MaxRunRequests

\* chain tips: a run of three chunks and one of five
RunTips == {2 * SYNC_CHUNK_SIZE + 2000, 5 * SYNC_CHUNK_SIZE}

RunCallInit ==
  /\ Quiet
  /\ ~initialized
  /\ CanSendInRun
  /\ Becomes(init(Bridge))
  /\ UNCHANGED <<worker, toBridge, poolVars, sessionVars>>

RunCallSetViewingKey ==
  /\ ops["init"] = "idle"
  /\ ops["setViewingKey"] = "idle"
  /\ initialized
  /\ CanSendInRun
  /\ Becomes(setViewingKey(Bridge, "ufvk"))
  /\ UNCHANGED <<worker, toBridge, poolVars, sessionVars>>

RunCallFullSync ==
  /\ Quiet
  /\ viewingKeySet
  /\ CanSendInRun
  /\ \E from \in FromHeights : Becomes(fullSync(Bridge, from))
  /\ UNCHANGED <<worker, toBridge, poolVars, sessionVars>>

RunTip ==
  /\ ops["fullSync"] = "tip"
  /\ CanSendInRun
  /\ \E tipHeight \in RunTips : Becomes(AfterTip(Bridge, tipHeight))
  /\ UNCHANGED <<worker, toBridge, poolVars, sessionVars>>

RunFetch ==
  /\ ops["fullSync"] = "fetch"
  /\ \E blocks \in {0, currentEnd(sync) - sync.currentStart + 1} :
       /\ CanSendInRun \/ blocks = 0
       /\ Becomes(AfterFetch(Bridge, blocks))
  /\ UNCHANGED <<worker, toBridge, poolVars, sessionVars>>

NextRun ==
  \/ RunCallInit
  \/ RunCallSetViewingKey
  \/ RunCallFullSync
  \/ RunTip
  \/ RunFetch
  \/ WorkerHandles
  \/ BridgeOnMessage

SpecRun == Init /\ [][NextRun]_vars

(* computeProgress alone: the worker state holds the three heights and the
   step is the assignment of handleIngestBlocks that calls it. *)

ProgressStarts  == {Undefined, 0, 5}
ProgressTargets == {Undefined, 0, 200, 205}
ProgressLatests == {Undefined} \cup 0..MaxHeight

InitProgress ==
  /\ \E startHeight \in ProgressStarts, latestHeight \in ProgressLatests,
        targetHeight \in ProgressTargets :
       worker = [InitialWorkerState EXCEPT
                   !.syncStartHeight = startHeight,
                   !.syncTargetHeight = targetHeight,
                   !.syncStatus.latestScannedHeight = latestHeight]
  /\ workerAlive = TRUE
  /\ toWorker = <<>>
  /\ toBridge = <<>>
  /\ BridgeInit
  /\ SessionInit
  /\ PoolInit

\* state.syncStatus.stage = "scanning"; state.syncStatus.progress = computeProgress(...)
ComputeProgress ==
  /\ worker.syncStatus.stage = "idle"
  /\ worker' = [worker EXCEPT
                  !.syncStatus.stage = "scanning",
                  !.syncStatus.progress =
                     computeProgress(worker.syncStartHeight,
                                     worker.syncStatus.latestScannedHeight,
                                     worker.syncTargetHeight)]
  /\ UNCHANGED <<workerAlive, toWorker, toBridge, bridgeVars, poolVars, sessionVars>>

NextProgress == ComputeProgress

SpecProgress == InitProgress /\ [][NextProgress]_vars

(* The session provider with a responsive worker: startSession, and the
   operations a holder of getLightClient() calls on the provider's client. *)

NextSession ==
  \/ StartSession
  \/ ClearProviderSession
  \/ SessionClientCall
  \/ WorkerHandles
  \/ SessionOnMessage

SpecSession == Init /\ [][NextSession]_vars

(* selectBestEndpoint alone: applied, again and again, to every pool. *)

InitSelect ==
  /\ WorkerInit
  /\ BridgeInit
  /\ SessionInit
  /\ endpoints \in Pools(SelectEndpoints)
  /\ activeEndpoint = NoEndpoint
  /\ call = IdleCall

\* a run of selectBestEndpoint(state)
Select ==
  /\ \E round \in ProbeRounds(endpoints) :
       LET s == selectBestEndpoint(endpoints, activeEndpoint, round)
       IN /\ endpoints' = s.endpoints
          /\ activeEndpoint' = s.activeEndpoint
          /\ call' = [call EXCEPT !.selection = IF s.threw THEN "threw" ELSE "selected"]
  /\ UNCHANGED <<workerVars, bridgeVars, sessionVars>>

NextSelect == Select

SpecSelect == InitSelect /\ [][NextSelect]_vars

----------------------------------------------------------------------------
(* Properties of the bridge (Spec) *)

EndedEvents(op) == {e \in events : e.kind = "ended" /\ e.op = op}

\* C1: whenever a fullSync call resolves, whatever else runs and whatever the
\* worker pushed, the cached status right after has stage "ready", progress 100
\* and latestScannedHeight = latestChainHeight = the chain tip of that run, a
\* valid tip (>= 0).
C1_FullSyncEndsReady ==
  \A e \in EndedEvents("fullSync") :
    e.outcome = "resolved" =>
      /\ e.tipHeight >= 0
      /\ lastSyncStatus.stage = "ready"
      /\ lastSyncStatus.progress = 100
      /\ lastSyncStatus.latestScannedHeight = e.tipHeight
      /\ lastSyncStatus.latestChainHeight = e.tipHeight

\* a fullSync over several chunks has just resolved after an empty last fetch: the
\* worker's own status is not "ready"
C1_Witness ==
  /\ \E e \in EndedEvents("fullSync") :
       e.outcome = "resolved" /\ e.tipHeight = MaxChunks * SYNC_CHUNK_SIZE + 2000
  /\ worker.syncStatus.stage = "scanning"
  /\ lastSyncStatus.stage = "ready"

\* C2: every request sent is settled at most once; it has been settled exactly
\* once as soon as it has left the pending map (by its response, its timeout or
\* the teardown) and not at all while it is pending; the pending map holds only
\* requests that were sent, one entry per requestId, and a timeout is armed
\* exactly for the pending requests.
C2_SettledExactlyOnce ==
  /\ DOMAIN settles = 1..(nextId - 1)
  /\ DOMAIN pendingRequests \subseteq DOMAIN settles
  /\ timers = DOMAIN pendingRequests
  /\ \A id \in DOMAIN settles :
       settles[id] = IF id \in DOMAIN pendingRequests THEN 0 ELSE 1

\* one request has just timed out, others were settled before, one is pending
C2_Witness ==
  /\ \E e \in events : e.kind = "ended" /\ e.outcome = "timed out"
  /\ Cardinality({id \in DOMAIN settles : settles[id] = 1}) >= 2
  /\ pendingRequests # EmptyMap

\* the requestId carried by the message the bridge is about to be delivered
HeadRequestId == Head(toBridge).requestId

\* the oldest undelivered message answers a request that is already settled
LateResponse ==
  /\ toBridge # <<>>
  /\ HasRequestId(Head(toBridge))
  /\ HeadRequestId \in DOMAIN settles
  /\ settles[HeadRequestId] >= 1

\* C3: a response that arrives for a request already settled (by its timeout)
\* is discarded: it settles nothing, ends no call, changes no pending entry and
\* no timer, and leaves the cached sync status unchanged.
C3_LateResponseDiscarded ==
  [][(LateResponse /\ toBridge' = Tail(toBridge)) =>
       /\ settles' = settles
       /\ pendingRequests' = pendingRequests
       /\ timers' = timers
       /\ lastSyncStatus' = lastSyncStatus
       /\ ops' = ops
       /\ events' \subseteq {DiscardedEvent(HeadRequestId)}]_vars

\* the worker is alive, so the discarded response is that of a request that
\* timed out
C3_Witness ==
  /\ ~destroyed
  /\ \E id \in DOMAIN settles :
       /\ DiscardedEvent(id) \in events
       /\ settles[id] = 1
       /\ id \notin DOMAIN pendingRequests

\* the request whose response the step delivers, if any
Answered ==
  IF toBridge # <<>> /\ toBridge' = Tail(toBridge) /\ HasRequestId(Head(toBridge))
    THEN {HeadRequestId} ELSE {}

\* C4: the step that destroys the worker rejects every request still pending
\* with "Worker terminated.", clears every timeout and empties the pending map;
\* once destroyed, no request is settled again, by a response or by a timeout.
C4_DestroyRejectsAllPending ==
  [][/\ (~destroyed /\ destroyed') =>
          /\ pendingRequests' = EmptyMap
          /\ timers' = {}
          /\ \A id \in DOMAIN pendingRequests :
               /\ settles'[id] = 1
               /\ id \notin Answered =>
                    \E e \in events' :
                      /\ e.kind = "ended"
                      /\ e.op = OpOf(pendingRequests[id].action)
                      /\ e.outcome = "Worker terminated."
     /\ destroyed =>
          /\ settles' = settles
          /\ pendingRequests' = pendingRequests
          /\ timers' = timers]_vars

\* the worker has just been destroyed with two requests pending
C4_Witness ==
  /\ destroyed
  /\ Cardinality({e \in events : e.kind = "ended" /\ e.outcome = "Worker terminated."}) >= 2
  /\ pendingRequests = EmptyMap
  /\ timers = {}

\* the step is a call of clearSession()
ClearSessionCalled ==
  /\ ops["clearSession"] = "idle"
  /\ \/ ops'["clearSession"] = "waiting"
     \/ \E e \in events' : e.kind = "ended" /\ e.op = "clearSession"

\* C10 as stated: a clearSession() call that follows a resolved one is
\* acknowledged too (it is not rejected).
C10_SecondCallAcknowledged ==
  [][(cleared /\ ClearSessionCalled) =>
       \A e \in events' :
         (e.kind = "ended" /\ e.op = "clearSession") => e.outcome = "resolved"]_vars

\* C10, amended: when a clearSession() call resolves, the cached status is
\* stage "idle", progress 0, the snapshot is empty and the worker is destroyed;
\* a clearSession() call after that is rejected at once with the destroyed-
\* instance error, sends nothing and changes nothing.
C10_SecondCallRejected ==
  [][/\ (\E e \in events' : e.kind = "ended" /\ e.op = "clearSession"
                             /\ e.outcome = "resolved") =>
          /\ cleared'
          /\ destroyed'
          /\ ~viewingKeySet'
          /\ lastSyncStatus' = IdleStatus
          /\ Snapshot(worker') = EmptySnapshot
     /\ (cleared /\ ClearSessionCalled) =>
          /\ \A e \in events' :
               (e.kind = "ended" /\ e.op = "clearSession") => e.outcome = DestroyedError
          /\ ops'["clearSession"] = "idle"
          /\ UNCHANGED <<lastSyncStatus, viewingKeySet, destroyed, pendingRequests,
                         settles, nextId, toWorker, worker>>]_vars

\* a clearSession() call resolved, and a later one has just been rejected
C10_Witness ==
  /\ cleared
  /\ \E e \in events :
       e.kind = "ended" /\ e.op = "clearSession" /\ e.outcome = DestroyedError
  /\ lastSyncStatus = IdleStatus

HandlesRunRequest ==
  /\ workerAlive
  /\ toWorker # <<>>
  /\ toWorker' = Tail(toWorker)
  /\ Head(toWorker).action \in {"sync", "ingestBlocks"}

\* C16 as stated: a fullSync run starts only after a setViewingKey call
\* resolved; when no "clearSession" request was posted since the latest
\* resolution of a setViewingKey call, the worker has the key flag set when it
\* handles the run's "sync" and "ingestBlocks" requests.
C16_KeyVisibleAfterResolution ==
  [][(HandlesRunRequest /\ ~clearOrder.afterResolution) => worker.hasViewingKey]_vars

\* C16, amended: when no "clearSession" request was posted after the request
\* of the latest setViewingKey call that resolved, the worker has a network and
\* the key flag set when it handles the run's "sync" and "ingestBlocks"
\* requests, and answers none of them with an error.
C16_KeyVisibleToRun ==
  [][(HandlesRunRequest /\ ~clearOrder.afterResolved) =>
       /\ worker.hasViewingKey
       /\ worker.network # "none"
       /\ worker'.hasViewingKey
       /\ \A i \in (Len(toBridge) + 1)..Len(toBridge') : toBridge'[i].type # "error"]_vars

\* the worker has handled an "ingestBlocks" of a run, which the bridge still
\* awaits; no clearSession was ever called
C16_Witness ==
  /\ clearOrder = NoClearSession
  /\ ops["fullSync"] = "waitIngest"
  /\ ops["clearSession"] = "idle"
  /\ toWorker = <<>>
  /\ workerAlive
  /\ worker.hasViewingKey
  /\ worker.syncStatus.stage \in {"scanning", "ready"}
  /\ toBridge # <<>>
  /\ toBridge[Len(toBridge)].type = "snapshot"

\* the step is a call of the client operation op
Called(op) ==
  /\ ops[op] = "idle"
  /\ \/ ops'[op] # "idle"
     \/ \E e \in events' : e.kind = "ended" /\ e.op = op

\* C18: the step that resolves a clearSession() call terminates the worker,
\* leaves the cached status at stage "idle", progress 0 and no request pending;
\* from then on the client stays destroyed with nothing pending, and every call
\* of init, setViewingKey, fullSync, sync, getSyncStatus, getDecryptedSnapshot or
\* clearSession is rejected at once with the destroyed-instance error and posts
\* nothing to the worker.
C18_ClearedClientRejectsCalls ==
  [][/\ (\E e \in events' : e.kind = "ended" /\ e.op = "clearSession"
                             /\ e.outcome = "resolved") =>
          /\ ~workerAlive'
          /\ destroyed'
          /\ lastSyncStatus'.stage = "idle"
          /\ lastSyncStatus'.progress = 0
          /\ pendingRequests' = EmptyMap
          /\ timers' = {}
     /\ cleared =>
          /\ ~workerAlive /\ ~workerAlive'
          /\ destroyed /\ destroyed'
          /\ pendingRequests' = EmptyMap
          /\ timers' = {}
          /\ toWorker' = toWorker
          /\ nextId' = nextId
          /\ worker' = worker
          /\ \A op \in OpNames :
               Called(op) =>
                 /\ ops'[op] = "idle"
                 /\ \A e \in events' :
                      (e.kind = "ended" /\ e.op = op) => e.outcome = DestroyedError]_vars

\* after a clearSession() call resolved, a getSyncStatus() call has just been
\* rejected
C18_Witness ==
  /\ cleared
  /\ destroyed
  /\ ~workerAlive
  /\ pendingRequests = EmptyMap
  /\ \E e \in events :
       e.kind = "ended" /\ e.op = "getSyncStatus" /\ e.outcome = DestroyedError

\* the viewing key values passed to setViewingKey
KeyValues == {"ufvk"}

\* the strings held by the worker state, by a worker message, by the bridge
WorkerStrings(w) ==
  {w.network, w.balances, w.syncStatus.stage, w.syncStatus.errorMessage}
    \cup {w.decryptedTransactions[i] : i \in DOMAIN w.decryptedTransactions}
MessageStrings(m) ==
  CASE m.type \in {"log", "error"} -> {m.message}
    [] m.type = "ok" -> {m.action}
    [] m.type = "syncStatus" -> {m.payload.stage, m.payload.errorMessage}
    [] m.type = "snapshot" ->
         {m.payload.balances}
           \cup {m.payload.transactions[i] : i \in DOMAIN m.payload.transactions}
BridgeStrings ==
  {lastSyncStatus.stage, lastSyncStatus.errorMessage}
    \cup {pendingRequests[id].action : id \in DOMAIN pendingRequests}
    \cup {pendingRequests[id].expectedType : id \in DOMAIN pendingRequests}
    \cup {e.outcome : e \in {x \in events : x.kind = "ended"}}
    \cup {ops[o] : o \in OpNames}

\* C19: the viewing key value is in no field of the worker state, which records
\* the key by its boolean flag only; in no message the worker has sent; and in
\* no field of the bridge state; no request but "setViewingKey" carries it.
C19_KeyNeverRetained ==
  /\ worker.hasViewingKey \in BOOLEAN
  /\ WorkerStrings(worker) \cap KeyValues = {}
  /\ \A i \in DOMAIN toBridge : MessageStrings(toBridge[i]) \cap KeyValues = {}
  /\ BridgeStrings \cap KeyValues = {}
  /\ \A i \in DOMAIN toWorker :
       toWorker[i].action # "setViewingKey" => "ufvk" \notin DOMAIN toWorker[i]

\* the worker has handled a "setViewingKey" carrying the key and its messages
\* are on their way to the bridge, which still awaits the acknowledgement
C19_Witness ==
  /\ worker.hasViewingKey
  /\ toWorker = <<>>
  /\ \E id \in DOMAIN pendingRequests :
       /\ pendingRequests[id].action = "setViewingKey"
       /\ Len(toBridge) >= 3
       /\ toBridge[Len(toBridge)] = OkMsg(id, "setViewingKey")
       /\ toBridge[Len(toBridge) - 2] = LogMsg("viewing key configured")

----------------------------------------------------------------------------
(* Properties of the worker (SpecWorker) *)

\* the request violates the precondition of its handler
ViolatesPrecondition(w, req) ==
  \/ req.action = "setViewingKey" /\ w.network = "none"
  \/ req.action \in {"sync", "ingestBlocks"} /\ (w.network = "none" \/ ~w.hasViewingKey)

\* C9: "setViewingKey" handled while no network is bound (no "init" was handled),
\* and "sync" or "ingestBlocks" handled without both a bound network and the key
\* flag, post exactly one message, a non-fatal error for that requestId (so no
\* status push), and leave the whole worker state unchanged; in particular the
\* key flag stays unset.
C9_PreconditionsLeaveStateUnchanged ==
  [][(/\ workerAlive
      /\ toWorker # <<>>
      /\ toWorker' = Tail(toWorker)
      /\ ViolatesPrecondition(worker, Head(toWorker))) =>
       /\ worker' = worker
       /\ Len(toBridge') = Len(toBridge) + 1
       /\ SubSeq(toBridge', 1, Len(toBridge)) = toBridge
       /\ toBridge'[Len(toBridge')].type = "error"
       /\ toBridge'[Len(toBridge')].requestId = Head(toWorker).requestId
       /\ ~toBridge'[Len(toBridge')].fatal]_vars

\* "setViewingKey" was just answered with the error, before any "init"
C9_Witness ==
  /\ worker.network = "none"
  /\ ~worker.hasViewingKey
  /\ toBridge # <<>>
  /\ Head(toBridge).type = "error"
  /\ Head(toBridge).message = "Cannot set viewing key before init."
  /\ worker = InitialWorkerState

----------------------------------------------------------------------------
\* the worker handles the oldest request in this step
WorkerHandlesHead == workerAlive /\ toWorker # <<>> /\ toWorker' = Tail(toWorker)

\* the last message the worker posted in this step
LastPosted == toBridge'[Len(toBridge')]

\* C11: handling "clearSession" from any state clears the key flag, empties
\* the transactions, nulls the balances, clears the sync start/target heights
\* and sets the status to idle / 0 with no heights and no error message,
\* changes nothing else, pushes that status and replies ok; handled in a state
\* that is already cleared it leaves the state as it is. While the key flag is
\* unset "sync" and "ingestBlocks" are answered with an error, and only
\* handling "setViewingKey" sets the flag again.
C11_WorkerClearSessionIdempotent ==
  [][WorkerHandlesHead =>
       LET req == Head(toWorker)
       IN /\ req.action = "clearSession" =>
               /\ ~worker'.hasViewingKey
               /\ worker'.decryptedTransactions = <<>>
               /\ worker'.balances = "null"
               /\ worker'.syncStartHeight = Undefined
               /\ worker'.syncTargetHeight = Undefined
               /\ worker'.syncStatus = SyncStatus("idle", 0, Undefined, Undefined, NoMessage)
               /\ worker'.network = worker.network
               /\ worker'.wasmInitialized = worker.wasmInitialized
               /\ Len(toBridge') = Len(toBridge) + 3
               /\ toBridge'[Len(toBridge) + 1] = SyncStatusMsg(worker'.syncStatus)
               /\ LastPosted = OkMsg(req.requestId, "clearSession")
               /\ (/\ ~worker.hasViewingKey
                   /\ worker.decryptedTransactions = <<>>
                   /\ worker.balances = "null"
                   /\ worker.syncStartHeight = Undefined
                   /\ worker.syncTargetHeight = Undefined
                   /\ worker.syncStatus = IdleStatus) => worker' = worker
          /\ (~worker.hasViewingKey /\ req.action \in {"sync", "ingestBlocks"}) =>
               /\ LastPosted.type = "error"
               /\ LastPosted.requestId = req.requestId
               /\ worker' = worker
          /\ (~worker.hasViewingKey /\ worker'.hasViewingKey) =>
               req.action = "setViewingKey"]_vars

\* "clearSession" was just handled, as the fourth request or later, by a worker
\* that has a network bound
C11_Witness ==
  /\ Len(toBridge) = 3
  /\ \E id \in 4..MaxWorkerRequests : toBridge[3] = OkMsg(id, "clearSession")
  /\ toBridge[1] = SyncStatusMsg(IdleStatus)
  /\ worker.network # "none"
  /\ ~worker.hasViewingKey
  /\ worker.syncStatus = IdleStatus

----------------------------------------------------------------------------
(* Properties of the endpoint pool (SpecPool, FairSpecPool, SpecSelect) *)

\* C5 as stated: every withFailover call ends.
C5_WithFailoverTerminates == (call.pc # "idle") ~> (call.pc = "idle")

\* within one call the operation was run a second time on the same endpoint
C5_Witness ==
  /\ call.pc = "attempt"
  /\ \E i \in DOMAIN call.ran : call.ran[i] >= 2 /\ activeEndpoint = i

\* the healthy endpoints the operation was not yet run on in this call, once it
\* has failed on the active one
UntriedHealthy ==
  {i \in DOMAIN endpoints : endpoints[i].healthy /\ i \notin call.tried \cup {activeEndpoint}}

\* C6: when the operation fails on the active endpoint and a healthy candidate
\* not yet tried exists, the call goes on (no error is raised) with such a
\* candidate active; when the operation succeeds the call returns, and the
\* active endpoint is the one it succeeded on.
C6_FailoverReturnsSuccess ==
  [][(call.pc = "attempt" /\ call' # call) =>
       IF call'.result = "returned"
         THEN /\ call'.pc = "idle"
              /\ activeEndpoint' = activeEndpoint
              /\ call'.current = activeEndpoint'
         ELSE UntriedHealthy # {} =>
                /\ call'.pc = "attempt"
                /\ call'.result = "none"
                /\ activeEndpoint' \in UntriedHealthy]_vars

\* the call returned from the second endpoint it tried, switched to without a
\* new selection, after the operation failed on the first
C6_Witness ==
  /\ call.result = "returned"
  /\ Cardinality(call.tried) = 2
  /\ ~call.reselected
  /\ activeEndpoint = call.current
  /\ call.err \in {OperationError(i) : i \in call.tried \ {activeEndpoint}}

Healthy == {i \in DOMAIN endpoints : endpoints[i].healthy}

\* C7: after selectBestEndpoint, if any probe succeeded the active endpoint is
\* one whose probe succeeded, no healthy endpoint is primary when the active one
\* is not, and no healthy endpoint of its primary class has a strictly lower
\* latency; if none succeeded it raised.
C7_BestHealthyActive ==
  /\ call.selection = "selected" <=> Healthy # {}
  /\ call.selection = "selected" =>
       /\ activeEndpoint \in Healthy
       /\ \A k \in Healthy :
            /\ endpoints[k].primary => endpoints[activeEndpoint].primary
            /\ endpoints[k].primary = endpoints[activeEndpoint].primary =>
                 endpoints[k].lastLatencyMs >= endpoints[activeEndpoint].lastLatencyMs

\* A unhealthy, B healthy non-primary 200 ms, C healthy non-primary 80 ms: C
C7_Witness ==
  /\ Len(endpoints) = 3
  /\ ~endpoints[1].healthy
  /\ endpoints[2].healthy /\ ~endpoints[2].primary /\ endpoints[2].lastLatencyMs = 200
  /\ endpoints[3].healthy /\ ~endpoints[3].primary /\ endpoints[3].lastLatencyMs = 80
  /\ activeEndpoint = 3

\* C8: a run of selectBestEndpoint raises the exhaustion error exactly when every
\* probe failed; then every endpoint is unhealthy with the probe's error and the
\* active endpoint is untouched; a withFailover call that had no active endpoint
\* ends with that error without having run the operation.
C8_ExhaustionError ==
  [][(call.pc \in {"select", "reselect"}) =>
       /\ call'.selection = "threw" <=> (\A i \in DOMAIN endpoints' : ~endpoints'[i].healthy)
       /\ call'.selection = "threw" =>
            /\ \A i \in DOMAIN endpoints' :
                 ~endpoints'[i].healthy /\ endpoints'[i].lastError = "healthcheck failed"
            /\ activeEndpoint' = activeEndpoint
            /\ call'.result = "raised"
       /\ (call.pc = "select" /\ call'.selection = "threw") =>
            /\ call'.pc = "idle"
            /\ call'.err = ExhaustionError
            /\ call'.tried = {}
            /\ \A i \in DOMAIN call'.ran : call'.ran[i] = 0]_vars

\* a call on a pool of two with no active endpoint has just ended with the
\* exhaustion error
C8_Witness ==
  /\ Len(endpoints) = 2
  /\ activeEndpoint = NoEndpoint
  /\ call.pc = "idle"
  /\ call.result = "raised"
  /\ call.err = ExhaustionError
  /\ \A i \in DOMAIN endpoints : endpoints[i].lastError = "healthcheck failed"

\* C20 as stated: within one withFailover call the operation is run at most
\* once against any endpoint, so at most as many times as the pool has
\* endpoints.
C20_AtMostOncePerEndpoint ==
  /\ \A i \in DOMAIN call.ran : call.ran[i] <= 1
  /\ Cardinality({i \in DOMAIN call.ran : call.ran[i] >= 1}) <= Len(endpoints)

\* a call on a pool of two has returned from an endpoint on which the operation
\* had failed earlier in the same call: the re-selection made it active again
C20_Witness ==
  /\ Len(endpoints) = 2
  /\ call.pc = "idle"
  /\ call.result = "returned"
  /\ call.reselected
  /\ call.current \in call.tried
  /\ call.ran[call.current] = 2

----------------------------------------------------------------------------
(* Properties of fullSync runs (SpecRun) *)

\* the worker handles an "ingestBlocks" request: in SpecRun one of the run in
\* progress, whose previous "ingestBlocks", if any, reported sync.reported
HandlesIngest == WorkerHandlesHead /\ Head(toWorker).action = "ingestBlocks"

\* C12 as stated: within a fullSync run with start < tip, the progress the
\* worker reports for an "ingestBlocks" is never below the progress it reported
\* for the run's previous one.
C12_ProgressNeverDecreases ==
  [][(HandlesIngest /\ sync.reported # Undefined) =>
       worker'.syncStatus.progress >= sync.reported]_vars

\* C12, amended: the progress reported for an "ingestBlocks" is never below
\* that of the run's previous one when the worker still holds the start height
\* it recorded (no "setViewingKey" was handled in between); and the
\* "ingestBlocks" that reaches the tip reports 100.
C12_ProgressMonotoneWithoutReset ==
  [][HandlesIngest =>
       /\ (sync.reported # Undefined /\ worker.syncStartHeight # Undefined) =>
            worker'.syncStatus.progress >= sync.reported
       /\ Head(toWorker).range.endHeight = Head(toWorker).range.tipHeight =>
            worker'.syncStatus.progress = 100]_vars

\* the worker has handled the third "ingestBlocks" of a run of five chunks
\* from height 0: 20, 40, 60
C12_Witness ==
  /\ ops["fullSync"] = "waitIngest"
  /\ toWorker = <<>>
  /\ sync.reported = 40
  /\ worker.syncStatus.progress = 60
  /\ worker.syncStartHeight = 0

----------------------------------------------------------------------------
(* Properties of computeProgress (SpecProgress) *)

\* the three heights computeProgress was applied to
Computed == worker.syncStatus.stage = "scanning"
ArgStart  == worker.syncStartHeight
ArgLatest == worker.syncStatus.latestScannedHeight
ArgTarget == worker.syncTargetHeight
ReturnsZero ==
  \/ ArgStart = Undefined
  \/ ArgLatest = Undefined
  \/ ArgTarget = Undefined
  \/ ArgTarget <= ArgStart

\* round(100 * done / total) of the exact quotient, a tie going up
RoundHalfUp(done, total) == (200 * done + total) \div (2 * total)

\* C13 as stated: 0 when target <= start or an argument is undefined, otherwise
\* round(100 * (latest - start) / (target - start)) clamped to [0, 100].
C13_RoundedQuotient ==
  Computed =>
    worker.syncStatus.progress =
      IF ReturnsZero THEN 0
      ELSE Max(0, Min(100, RoundHalfUp(ArgLatest - ArgStart, ArgTarget - ArgStart)))

\* C13, amended: 0 when target <= start or an argument is undefined; otherwise
\* an integer of [0, 100], 0 when latest < start and 100 when latest > target,
\* and in between an integer nearest to 100 * (latest - start) / (target - start):
\* where that quotient is exactly k + 0.5 the result is k + 1, except for
\* k = 14, 28, 56 and 57 where it is k.
C13_NearestInteger ==
  Computed =>
    LET p     == worker.syncStatus.progress
        done  == ArgLatest - ArgStart
        total == ArgTarget - ArgStart
    IN IF ReturnsZero THEN p = 0
       ELSE /\ p \in 0..100
            /\ ArgLatest < ArgStart => p = 0
            /\ ArgLatest > ArgTarget => p = 100
            /\ (ArgStart <= ArgLatest /\ ArgLatest <= ArgTarget) =>
                 /\ 200 * done - total <= 2 * total * p
                 /\ 2 * total * p <= 200 * done + total
                 /\ 2 * total * p = 200 * done - total => p \in {14, 28, 56, 57}
                 /\ 2 * total * p = 200 * done + total => (p - 1) \notin {14, 28, 56, 57}

\* computeProgress(0, 115, 200), where the quotient is exactly 57.5, returned 57
C13_Witness ==
  /\ Computed
  /\ ArgStart = 0 /\ ArgLatest = 115 /\ ArgTarget = 200
  /\ worker.syncStatus.progress = 57

----------------------------------------------------------------------------
(* Properties of the chunk loop (SpecRun) *)

\* the bridge posts an "ingestBlocks" request
PostsIngest ==
  /\ Len(toWorker') = Len(toWorker) + 1
  /\ toWorker'[Len(toWorker')].action = "ingestBlocks"
PostedRange == toWorker'[Len(toWorker')].range

\* the ranges of the run's "ingestBlocks" requests are consecutive from the
\* run's start, of the chunk size except the last, and carry the run's tip
RangesPartition ==
  /\ PostsIngest =>
       /\ PostedRange.tipHeight = sync.tipHeight
       /\ PostedRange.startHeight <= PostedRange.endHeight
       /\ PostedRange.endHeight <= sync.tipHeight
       /\ PostedRange.endHeight # sync.tipHeight =>
            PostedRange.endHeight - PostedRange.startHeight + 1 = SYNC_CHUNK_SIZE
       /\ PostedRange.endHeight - PostedRange.startHeight + 1 <= SYNC_CHUNK_SIZE
       /\ ~sync.skipped =>
            PostedRange.startHeight =
              IF sync.ingestedTo = Undefined THEN sync.fromHeight
                                             ELSE sync.ingestedTo + 1
  /\ \A e \in events' :
       (/\ e.kind = "ended" /\ e.op = "fullSync" /\ e.outcome = "resolved"
        /\ ops["fullSync"] = "waitIngest"
        /\ ~sync.skipped) =>
         /\ sync.ingestedTo = e.tipHeight
         /\ lastSyncStatus'.stage = "ready"

\* the run from 0 to 12000
ExampleTip == 2 * SYNC_CHUNK_SIZE + 2000
ExampleProgress(endHeight) ==
  CASE endHeight = SYNC_CHUNK_SIZE - 1     -> 42
    [] endHeight = 2 * SYNC_CHUNK_SIZE - 1 -> 83
    [] endHeight = ExampleTip              -> 100
HandlesExampleIngest ==
  /\ HandlesIngest
  /\ sync.fromHeight = 0
  /\ sync.tipHeight = ExampleTip
  /\ ~sync.skipped

\* C14 as stated: the ranges partition [start, tip], and in the run from 0 to
\* 12000 the worker reports 42, 83 and 100 and ends in stage "ready".
C14_RangesPartitionWithProgress ==
  [][/\ RangesPartition
     /\ HandlesExampleIngest =>
          /\ Head(toWorker).range.endHeight \in
               {SYNC_CHUNK_SIZE - 1, 2 * SYNC_CHUNK_SIZE - 1, ExampleTip}
          /\ worker'.syncStatus.progress =
               ExampleProgress(Head(toWorker).range.endHeight)
          /\ Head(toWorker).range.endHeight = ExampleTip =>
               worker'.syncStatus.stage = "ready"]_vars

\* C14, amended: the ranges partition [start, tip]; in the run from 0 to 12000
\* the worker reports 42, 83 and 100 for the chunks it handles with 0 as its
\* recorded start height, and whatever that height the last chunk reports 100
\* and stage "ready".
C14_RangesPartition ==
  [][/\ RangesPartition
     /\ HandlesExampleIngest =>
          /\ Head(toWorker).range.endHeight \in
               {SYNC_CHUNK_SIZE - 1, 2 * SYNC_CHUNK_SIZE - 1, ExampleTip}
          /\ worker'.syncStartHeight = 0 =>
               worker'.syncStatus.progress =
                 ExampleProgress(Head(toWorker).range.endHeight)
          /\ Head(toWorker).range.endHeight = ExampleTip =>
               /\ worker'.syncStatus.progress = 100
               /\ worker'.syncStatus.stage = "ready"]_vars

\* the run from 0 to 12000 has just resolved after three chunks, the worker
\* having recorded 0 as its start and reported 83 before the last
C14_Witness ==
  /\ \E e \in EndedEvents("fullSync") :
       e.outcome = "resolved" /\ e.tipHeight = ExampleTip
  /\ worker.syncStartHeight = 0
  /\ worker.syncStatus.stage = "ready"
  /\ worker.syncStatus.latestScannedHeight = ExampleTip
  /\ lastSyncStatus.stage = "ready"
  /\ nextId = 7

----------------------------------------------------------------------------
(* Properties of the session provider (SpecSession) *)

\* C17 as stated: when a startSession call ends, with a responsive worker, the
\* session phase is "READY_TO_SYNC" and lastError is null, the client having
\* been initialized and given the key.
C17_StartSessionReady ==
  \A e \in EndedEvents("startSession") :
    /\ session.phase = "READY_TO_SYNC"
    /\ session.lastError = NoSessionError
    /\ initialized
    /\ viewingKeySet

\* a startSession call has just ended: the new client was never initialized,
\* its setViewingKey rejected without posting anything, and the session is in
\* phase "ERROR"
C17_Witness ==
  /\ EndedEvents("startSession") # {}
  /\ lightClientRef = "client"
  /\ ~initialized
  /\ ~viewingKeySet
  /\ toWorker = <<>>
  /\ nextId = 1
  /\ session.phase = "ERROR"
  /\ session.lastError =
       SessionError("SESSION_INIT_FAILED",
                    "ZRayLightClient must be initialized before setting a viewing key.",
                    TRUE)


----------------------------------------------------------------------------
(* The bridge alone, against any sender that keeps to the message protocol of
   lightclient.messages.ts: the worker's side is replaced by the posting of an
   arbitrary WorkerResponse, among them errors that carry no requestId. At most
   one message is on its way at a time. *)

\* payloads of "syncStatus" pushes
PushedStatuses ==
  {IdleStatus,
   SyncStatus("scanning", 42, SYNC_CHUNK_SIZE - 1, 2 * SYNC_CHUNK_SIZE + 2000, NoMessage)}

\* the WorkerResponse messages; the bridge reads neither the action of an "ok"
\* nor the fatal flag of an error
Responses ==
  {SyncStatusMsg(st) : st \in PushedStatuses}
    \cup {LogMsg("no-WASM mode")}
    \cup {ErrorMsg("worker failed", NoRequestId, TRUE)}
    \cup UNION {{OkMsg(id, "init"), SnapshotMsg(id, EmptySnapshot),
                 ErrorMsg("request failed", id, FALSE)} : id \in 1..MaxRequests}

\* the sender posts a message
SenderPosts ==
  /\ toBridge = <<>>
  /\ \E m \in Responses : toBridge' = <<m>>
  /\ events' = {}
  /\ UNCHANGED <<worker, workerAlive, toWorker, initialized, viewingKeySet, destroyed,
                 lastSyncStatus, pendingRequests, timers, nextId, settles, ops, sync,
                 cleared, clearOrder, poolVars, sessionVars>>

\* the sender takes the requests posted so far
SenderTakes ==
  /\ toWorker # <<>>
  /\ toWorker' = <<>>
  /\ events' = {}
  /\ UNCHANGED <<worker, workerAlive, toBridge, initialized, viewingKeySet, destroyed,
                 lastSyncStatus, pendingRequests, timers, nextId, settles, ops, sync,
                 cleared, clearOrder, poolVars, sessionVars>>

NextBridge ==
  \/ CallInit
  \/ CallSetViewingKey
  \/ CallGetDecryptedSnapshot
  \/ CallGetSyncStatus
  \/ SenderPosts
  \/ SenderTakes
  \/ BridgeOnMessage
  \/ \E id \in 1..MaxRequests : Timeout(id)

SpecBridge == Init /\ [][NextBridge]_vars

----------------------------------------------------------------------------
(* The worker's record of a run (SpecRun) *)

\* the worker handles the first "ingestBlocks" of the fullSync run in progress
HandlesFirstIngest == HandlesIngest /\ sync.reported = Undefined

\* C21 as stated: after the first "ingestBlocks" of every fullSync run, the
\* first run or a later one, the worker's syncStartHeight is that request's
\* range.startHeight and the progress is computed from it; every "ingestBlocks"
\* sets syncTargetHeight to range.tipHeight and latestScannedHeight to
\* range.endHeight.
C21_StartRecordedPerRun ==
  [][HandlesIngest =>
       LET range == Head(toWorker).range
       IN /\ worker'.syncTargetHeight = range.tipHeight
          /\ worker'.syncStatus.latestScannedHeight = range.endHeight
          /\ HandlesFirstIngest =>
               /\ worker'.syncStartHeight = range.startHeight
               /\ worker'.syncStatus.progress =
                    IF range.endHeight >= range.tipHeight THEN 100
                    ELSE computeProgress(range.startHeight, range.endHeight,
                                         range.tipHeight)]_vars

\* the worker has handled the first "ingestBlocks" of a second run, from height
\* 0, and still holds the start height 5000 of the first run: progress 0
C21_Witness ==
  /\ ops["fullSync"] = "waitIngest"
  /\ toWorker = <<>>
  /\ sync.reported = Undefined
  /\ sync.fromHeight = 0
  /\ sync.ingestedTo = SYNC_CHUNK_SIZE - 1
  /\ worker.syncStartHeight = SYNC_CHUNK_SIZE
  /\ worker.syncStatus.latestScannedHeight = SYNC_CHUNK_SIZE - 1
  /\ worker.syncStatus.progress = 0


----------------------------------------------------------------------------
(* The worker's status after "ingestBlocks" (SpecWorker) *)

\* the worker handles an "ingestBlocks" request and replies with a snapshot
IngestSucceeds == HandlesIngest /\ LastPosted.type = "snapshot"

\* C22: after a successful "ingestBlocks" the worker's status is ready with
\* progress 100 when range.endHeight >= range.tipHeight, also when the tip is
\* not above the recorded start; otherwise it is scanning with progress
\* computeProgress(syncStartHeight, endHeight, tipHeight), at most 100. In both
\* cases latestScannedHeight = endHeight and latestChainHeight = tipHeight.
C22_StatusAfterIngest ==
  [][IngestSucceeds =>
       LET range == Head(toWorker).range
           st    == worker'.syncStatus
       IN /\ st.latestScannedHeight = range.endHeight
          /\ st.latestChainHeight = range.tipHeight
          /\ st.progress <= 100
          /\ IF range.endHeight >= range.tipHeight
               THEN st.stage = "ready" /\ st.progress = 100
               ELSE /\ st.stage = "scanning"
                    /\ st.progress = computeProgress(worker'.syncStartHeight,
                                                     range.endHeight,
                                                     range.tipHeight)]_vars

\* the worker has ingested a range that starts above the tip (start 5000, tip
\* 0), where computeProgress alone gives 0: ready, 100
C22_Witness ==
  /\ worker.syncStatus.stage = "ready"
  /\ worker.syncStatus.progress = 100
  /\ worker.syncStartHeight = SYNC_CHUNK_SIZE
  /\ worker.syncTargetHeight = 0
  /\ worker.syncStatus.latestScannedHeight = 0
  /\ computeProgress(worker.syncStartHeight, worker.syncStatus.latestScannedHeight,
                     worker.syncTargetHeight) = 0
  /\ toBridge # <<>>
  /\ toBridge[Len(toBridge)].type = "snapshot"


----------------------------------------------------------------------------
(* The order of the stages (SpecRun) *)

\* idle -> syncing -> scanning -> ready
StageRank(stage) ==
  CASE stage = "idle"     -> 0
    [] stage = "syncing"  -> 1
    [] stage = "scanning" -> 2
    [] stage = "ready"    -> 3

OrderedStages == {"idle", "syncing", "scanning", "ready"}

\* stage a comes before stage b in the order
Earlier(a, b) ==
  a \in OrderedStages /\ b \in OrderedStages /\ StageRank(a) < StageRank(b)

\* the explicit resets
ResetActions == {"init", "setViewingKey", "clearSession"}

\* C23 as stated: the stage of the worker's status, and of the bridge's cached
\* copy, moves to an earlier stage only by going to idle through an explicit
\* reset (init, setViewingKey, clearSession); a "sync" or an "ingestBlocks"
\* never moves it to an earlier stage.
C23_StageOnlyAdvances ==
  [][/\ Earlier(worker'.syncStatus.stage, worker.syncStatus.stage) =>
          /\ worker'.syncStatus.stage = "idle"
          /\ WorkerHandlesHead
          /\ Head(toWorker).action \in ResetActions
     /\ Earlier(lastSyncStatus'.stage, lastSyncStatus.stage) =>
          lastSyncStatus'.stage = "idle"]_vars

\* the worker has handled the "sync" of a second run: its status went from
\* ready back to syncing and still shows the first run's progress and heights
C23_Witness ==
  /\ ops["fullSync"] = "waitSync"
  /\ toWorker = <<>>
  /\ worker.syncStatus.stage = "syncing"
  /\ worker.syncStatus.progress = 100
  /\ worker.syncStatus.latestScannedHeight = worker.syncStatus.latestChainHeight
  /\ lastSyncStatus.stage = "ready"


----------------------------------------------------------------------------
(* fullSync against tips at, below and above the start height: the runs of
   SpecRun with the tips and the network failures of Spec. *)

NextTips ==
  \/ RunCallInit
  \/ RunCallSetViewingKey
  \/ RunCallFullSync
  \/ FullSyncTip
  \/ FullSyncTipFails
  \/ RunFetch
  \/ FetchFails
  \/ WorkerHandles
  \/ BridgeOnMessage

SpecTips == Init /\ [][NextTips]_vars


\* getLatestBlockHeight returns to fullSync the valid height tip, below the
\* resolved start height, and fullSync runs on from there to its next await or
\* to its end
NothingToSync(tip) ==
  /\ ops["fullSync"] = "tip"
  /\ StartHeight(sync.param, tip) > tip
  /\ \/ sync'.tipHeight = tip
     \/ \E e \in events' : e.kind = "ended" /\ e.op = "fullSync" /\ e.tipHeight = tip

\* C24: when the resolved start height is above the tip, fullSync sets the
\* cached status to ready, 100, latestScannedHeight = latestChainHeight = tip
\* and resolves; it sends the worker no request and fetches no block range.
C24_NothingToSyncShortCircuit ==
  [][\A tip \in TipHeights :
       NothingToSync(tip) =>
          /\ events' = {EndedEvent("fullSync", "resolved", tip)}
          /\ lastSyncStatus'.stage = "ready"
          /\ lastSyncStatus'.progress = 100
          /\ lastSyncStatus'.latestScannedHeight = tip
          /\ lastSyncStatus'.latestChainHeight = tip
          /\ ops'["fullSync"] = "idle"
          /\ toWorker' = toWorker
          /\ pendingRequests' = pendingRequests
          /\ nextId' = nextId]_vars

\* fullSync({fromHeight: 5000}) has just resolved against a tip of 4999 while
\* the worker had never been sent a "sync"
C24_Witness ==
  /\ EndedEvent("fullSync", "resolved", SYNC_CHUNK_SIZE - 1) \in events
  /\ lastSyncStatus = NothingToSyncStatus(SYNC_CHUNK_SIZE - 1)
  /\ worker.syncStatus.stage = "idle"
  /\ viewingKeySet
  /\ nextId = 3
  /\ toWorker = <<>>
  /\ pendingRequests = EmptyMap


----------------------------------------------------------------------------
(* fetchBlocksWithRetries (SpecTips) *)

\* an attempt of getCompactBlocks for the current chunk threw: fullSync retries
\* or ends with an error that is not one of its other errors
FetchAttemptFailed ==
  /\ ops["fullSync"] = "fetch"
  /\ \/ sync'.attempt = sync.attempt + 1
     \/ \E e \in events' : /\ e.kind = "ended"
                           /\ e.op = "fullSync"
                           /\ e.outcome \notin {"resolved", DestroyedError}

\* C25: for each chunk fullSync calls getCompactBlocks at most
\* MAX_RETRIES_PER_CHUNK times: the call in progress is number attempt + 1. A
\* failed attempt before the last is retried on the same range; when the last
\* one fails fullSync rejects with the error naming the range and posts no
\* "ingestBlocks"; when an attempt succeeds with blocks the run goes on with
\* the "ingestBlocks" of that range.
C25_BoundedFetchRetries ==
  [][ops["fullSync"] = "fetch" =>
       /\ sync.attempt + 1 <= MAX_RETRIES_PER_CHUNK
       /\ FetchAttemptFailed =>
            /\ toWorker' = toWorker
            /\ pendingRequests' = pendingRequests
            /\ IF sync.attempt + 1 < MAX_RETRIES_PER_CHUNK
                 THEN /\ ops'["fullSync"] = "fetch"
                      /\ sync' = [sync EXCEPT !.attempt = @ + 1]
                      /\ events' = {}
                 ELSE /\ ops'["fullSync"] = "idle"
                      /\ events' = {EndedEvent("fullSync",
                                               FetchError(sync.currentStart,
                                                          currentEnd(sync)),
                                               sync.tipHeight)}
       /\ ops'["fullSync"] = "waitIngest" =>
            /\ ~FetchAttemptFailed
            /\ toWorker' = Append(toWorker,
                   [requestId |-> nextId, action |-> "ingestBlocks",
                    blocks |-> currentEnd(sync) - sync.currentStart + 1,
                    range |-> [startHeight |-> sync.currentStart,
                               endHeight |-> currentEnd(sync),
                               tipHeight |-> sync.tipHeight]])]_vars

\* fullSync from 0 to 12000 has just rejected: the first chunk was ingested and
\* the three fetches of the second chunk failed
C25_Witness ==
  /\ events = {EndedEvent("fullSync", FetchError(SYNC_CHUNK_SIZE, 2 * SYNC_CHUNK_SIZE - 1),
                          2 * SYNC_CHUNK_SIZE + 2000)}
  /\ ops["fullSync"] = "idle"
  /\ worker.syncStatus.latestScannedHeight = SYNC_CHUNK_SIZE - 1
  /\ worker.syncStatus.stage = "scanning"
  /\ toWorker = <<>>


----------------------------------------------------------------------------
(* The order of a run's requests (SpecTips) *)

\* the requests of fullSync the bridge is waiting on, and those not yet handled
RunPending ==
  {id \in DOMAIN pendingRequests : pendingRequests[id].action \in {"sync", "ingestBlocks"}}
RunQueued ==
  {i \in DOMAIN toWorker : toWorker[i].action \in {"sync", "ingestBlocks"}}

\* fullSync starts the fetch of a chunk: the first one, or the next one
StartsFetch ==
  /\ ops'["fullSync"] = "fetch"
  /\ ops["fullSync"] # "fetch" \/ sync'.currentStart # sync.currentStart

\* C26: during a fullSync run at most one request of the run is outstanding;
\* the first fetch starts when the "ok" of "sync" is received, the fetch of the
\* next chunk when the snapshot reply of the current chunk's "ingestBlocks" is
\* received or when the current chunk's fetch returned no blocks, and such a
\* chunk posts no "ingestBlocks".
C26_OneIngestAtATime ==
  [][/\ Cardinality(RunPending) <= 1
     /\ Cardinality(RunQueued) <= 1
     /\ ops["fullSync"] = "fetch" => RunPending = {} /\ RunQueued = {}
     /\ PostsIngest => toWorker'[Len(toWorker')].blocks > 0
     /\ StartsFetch =>
          \/ /\ ops["fullSync"] = "waitSync"
             /\ toBridge # <<>>
             /\ Head(toBridge) = OkMsg(Head(toBridge).requestId, "sync")
             /\ RunPending = {Head(toBridge).requestId}
             /\ sync'.currentStart = sync.fromHeight
          \/ /\ ops["fullSync"] = "waitIngest"
             /\ toBridge # <<>>
             /\ Head(toBridge).type = "snapshot"
             /\ RunPending = {Head(toBridge).requestId}
             /\ sync.ingestedTo = currentEnd(sync)
             /\ sync'.currentStart = currentEnd(sync) + 1
          \/ /\ ops["fullSync"] = "fetch"
             /\ sync'.skipped
             /\ sync.ingestedTo # currentEnd(sync)
             /\ toWorker' = toWorker
             /\ pendingRequests' = pendingRequests
             /\ sync'.currentStart = currentEnd(sync) + 1]_vars

\* a run from 0 to 12000 is fetching its third chunk: the first was ingested
\* and answered, the second returned no blocks
C26_Witness ==
  /\ ops["fullSync"] = "fetch"
  /\ sync.tipHeight = 2 * SYNC_CHUNK_SIZE + 2000
  /\ sync.currentStart = 2 * SYNC_CHUNK_SIZE
  /\ sync.ingestedTo = SYNC_CHUNK_SIZE - 1
  /\ sync.skipped
  /\ worker.syncStatus.latestScannedHeight = SYNC_CHUNK_SIZE - 1
  /\ pendingRequests = EmptyMap


----------------------------------------------------------------------------
(* worker.onmessage: pushes and global errors (SpecBridge) *)

\* the bridge's message handler runs on the oldest undelivered message
BridgeReceives == toBridge # <<>> /\ toBridge' = Tail(toBridge)

\* no pending request is resolved, rejected or removed, and no call ends
PendingUntouched ==
  /\ pendingRequests' = pendingRequests
  /\ timers' = timers
  /\ settles' = settles
  /\ ops' = ops
  /\ events' = {}

\* C27: when the bridge receives an error that carries no requestId, the cached
\* status gets stage "error" and the message as errorMessage and keeps its
\* other fields; no pending request is resolved, rejected or removed.
C27_GlobalErrorKeepsPending ==
  [][(/\ BridgeReceives
      /\ Head(toBridge).type = "error"
      /\ ~HasRequestId(Head(toBridge))) =>
        /\ lastSyncStatus' = [lastSyncStatus EXCEPT
                                !.stage = "error",
                                !.errorMessage = Head(toBridge).message]
        /\ PendingUntouched]_vars

\* a global error arrived while a request was pending and the cached status
\* held heights: the heights and the progress are kept
C27_Witness ==
  /\ lastSyncStatus.stage = "error"
  /\ lastSyncStatus.errorMessage = "worker failed"
  /\ lastSyncStatus.progress = 42
  /\ lastSyncStatus.latestScannedHeight = SYNC_CHUNK_SIZE - 1
  /\ pendingRequests # EmptyMap
  /\ toBridge = <<>>

\* C28: a "syncStatus" push makes the cached status exactly the pushed payload;
\* getSyncStatus returns the cached status, the value written last; a status
\* push or a log push resolves, rejects or removes no pending request, and a
\* log push leaves the cached status alone.
C28_PushIsLastWrite ==
  [][/\ (BridgeReceives /\ Head(toBridge).type = "syncStatus") =>
          /\ lastSyncStatus' = Head(toBridge).payload
          /\ PendingUntouched
     /\ (BridgeReceives /\ Head(toBridge).type = "log") =>
          /\ lastSyncStatus' = lastSyncStatus
          /\ PendingUntouched
     /\ \A e \in events' :
          (e.kind = "returned" /\ e.op = "getSyncStatus") =>
             /\ e.value = lastSyncStatus
             /\ lastSyncStatus' = lastSyncStatus]_vars

\* getSyncStatus has just returned the status of the latest push, while one
\* request is pending and another has been settled
C28_Witness ==
  /\ ReturnedEvent("getSyncStatus",
                   SyncStatus("scanning", 42, SYNC_CHUNK_SIZE - 1,
                              2 * SYNC_CHUNK_SIZE + 2000, NoMessage)) \in events
  /\ pendingRequests # EmptyMap
  /\ settles # EmptyMap
  /\ \E id \in DOMAIN settles : settles[id] > 0


----------------------------------------------------------------------------
(* The worker's snapshots (SpecWorker) *)

\* the worker's complete current data, as a snapshot
CurrentData(w) == [transactions |-> w.decryptedTransactions, balances |-> w.balances]

\* C29: handling "getDecryptedSnapshot" changes no field of the worker state,
\* whatever the state (also before init), and posts one message only, the
\* snapshot of the worker's complete current transactions and balances; a
\* successful "ingestBlocks" ends with the snapshot of the complete current
\* data too.
C29_SnapshotIsPureRead ==
  [][/\ (WorkerHandlesHead /\ Head(toWorker).action = "getDecryptedSnapshot") =>
          /\ worker' = worker
          /\ toBridge' = Append(toBridge, SnapshotMsg(Head(toWorker).requestId,
                                                      CurrentData(worker)))
     /\ IngestSucceeds =>
          /\ LastPosted = SnapshotMsg(Head(toWorker).requestId, CurrentData(worker'))
          /\ CurrentData(worker') = CurrentData(worker)]_vars

\* the worker has answered a "getDecryptedSnapshot" that came before any init
C29_Witness ==
  /\ worker = InitialWorkerState
  /\ toWorker = <<>>
  /\ toBridge = <<SnapshotMsg(1, CurrentData(InitialWorkerState))>>


----------------------------------------------------------------------------
(* The pool's active endpoint (SpecPool) *)

\* a selection has succeeded at some time: a health probe has answered, which
\* leaves its latency in the endpoint's entry for good
SelectionHasSucceeded ==
  \E i \in DOMAIN endpoints : endpoints[i].lastLatencyMs # Undefined

\* this step is a selectBestEndpoint that does not throw
SelectionSucceeds ==
  /\ call.pc \in {"select", "reselect"}
  /\ call'.selection = "selected"

\* C30: the active endpoint is null until the first successful selection; from
\* then on it is never null and is one endpoint of the pool, through every
\* withFailover call, failure and re-selection.
C30_ActiveEndpointStays ==
  [][/\ activeEndpoint = NoEndpoint <=> ~SelectionHasSucceeded
     /\ activeEndpoint # NoEndpoint => activeEndpoint \in DOMAIN endpoints
     /\ activeEndpoint # NoEndpoint => activeEndpoint' \in DOMAIN endpoints
     /\ (activeEndpoint = NoEndpoint /\ activeEndpoint' # NoEndpoint) => SelectionSucceeds
     /\ (activeEndpoint = NoEndpoint /\ SelectionSucceeds) =>
          activeEndpoint' \in DOMAIN endpoints]_vars

\* a call has ended with every endpoint of a pool of two failing, its
\* re-selection included: the endpoint selected first is still the active one
C30_Witness ==
  /\ Len(endpoints) = 2
  /\ call.pc = "idle"
  /\ call.result = "raised"
  /\ call.reselected
  /\ call.selection = "threw"
  /\ \A i \in DOMAIN endpoints : ~endpoints[i].healthy
  /\ activeEndpoint \in DOMAIN endpoints


----------------------------------------------------------------------------
(* Failures in withFailover (SpecPool) *)

\* the operation, run against the active endpoint, throws
OperationFails ==
  /\ call.pc = "attempt"
  /\ ~(call'.pc = "idle" /\ call'.result = "returned")

\* healthy endpoints the call has not tried, after the step
HealthyUntriedAfter ==
  {i \in DOMAIN endpoints' : endpoints'[i].healthy /\ i \notin call'.tried}

\* C31: when the operation fails the endpoint it ran against is marked
\* unhealthy with the captured error; an unhealthy endpoint becomes healthy
\* only by a successful probe of selectBestEndpoint; withFailover re-runs the
\* selection exactly when no healthy untried candidate remains; and when that
\* re-selection finds no healthy endpoint the call raises the operation's last
\* error, not the exhaustion error.
C31_FailureMarksAndReselects ==
  [][/\ OperationFails =>
          /\ ~endpoints'[activeEndpoint].healthy
          /\ endpoints'[activeEndpoint].lastError = "request failed"
          /\ call'.err = OperationError(activeEndpoint)
          /\ \A i \in DOMAIN endpoints : i # activeEndpoint => endpoints'[i] = endpoints[i]
          /\ call'.pc = "reselect" <=> HealthyUntriedAfter = {}
          /\ HealthyUntriedAfter # {} => activeEndpoint' \in HealthyUntriedAfter
     /\ \A i \in DOMAIN endpoints :
          (~endpoints[i].healthy /\ endpoints'[i].healthy) =>
             /\ call.pc \in {"select", "reselect"}
             /\ endpoints'[i].lastLatencyMs # Undefined
             /\ endpoints'[i].lastError = NoMessage
     /\ (call.pc = "reselect" /\ call'.selection = "threw") =>
          /\ call'.pc = "idle"
          /\ call'.result = "raised"
          /\ call'.err = OperationError(call.current)
          /\ call'.err # ExhaustionError]_vars

\* a call on a pool of two has raised the error of the operation on the second
\* endpoint: both endpoints failed and the re-selection found none healthy
C31_Witness ==
  /\ Len(endpoints) = 2
  /\ call.pc = "idle"
  /\ call.result = "raised"
  /\ call.tried = {1, 2}
  /\ call.reselected
  /\ call.selection = "threw"
  /\ call.err = OperationError(call.current)
  /\ \A i \in DOMAIN endpoints : ~endpoints[i].healthy


----------------------------------------------------------------------------
(* The workers of the session provider's clients (SpecSession) *)

\* the workers that are running: those of dropped clients and the one of the
\* provider's current client
LiveWorkers ==
  orphans + (IF lightClientRef = "client" /\ workerAlive THEN 1 ELSE 0)

\* C32 as stated: after the provider's clearSession(), and when startSession
\* replaces a client, the previous client's worker has been terminated, so no
\* dropped client's worker is running and at most one worker is live.
C32_PreviousClientTornDown ==
  /\ orphans = 0
  /\ LiveWorkers <= 1

\* the provider's clearSession() has completed (phase NO_SESSION, no client
\* held) and the worker of the client it dropped is running and still holds
\* the key flag
C32_Witness ==
  /\ lightClientRef = "null"
  /\ session.phase = "NO_SESSION"
  /\ orphans = 1
  /\ workerAlive
  /\ worker.hasViewingKey
  /\ toWorker = <<>>


----------------------------------------------------------------------------
(* Every awaited request settles (FairSpecSettle) *)

\* The operations that send one request each, against the worker, with
\* timeouts, page unload and clearSession; the worker may stop answering at
\* any time.
CanSendToSettle == nextId <= MaxSettleRequests

NextSettle ==
  \/ CanSendToSettle /\ CallInit
  \/ CanSendToSettle /\ CallSetViewingKey
  \/ CanSendToSettle /\ CallGetDecryptedSnapshot
  \/ CanSendToSettle /\ CallClearSession
  \/ WorkerHandles
  \/ BridgeOnMessage
  \/ \E id \in 1..MaxSettleRequests : Timeout(id)
  \/ BeforeUnload
  \/ DropUndelivered

SpecSettle == Init /\ [][NextSettle]_vars

\* A timer armed by setTimeout fires unless clearTimeout disarms it first.
FairSpecSettle == SpecSettle /\ \A id \in 1..MaxSettleRequests : WF_vars(Timeout(id))

\* the operations whose call is suspended on a worker request
Suspended(op) ==
  IF op = "fullSync" THEN ops[op] \in {"waitSync", "waitIngest"} ELSE ops[op] # "idle"

----------------------------------------------------------------------------
\* the fullSync run is between its "sync" notification and its end: waiting for
\* a worker reply or for a block fetch
RunWaits == ops["fullSync"] \in {"waitSync", "waitIngest", "fetch"}

\* C34: destroying the worker abandons a fullSync run in progress. The
\* destruction itself rejects a run that waits for a worker reply; a run that
\* waits for a block fetch while the client is destroyed ends, when it next
\* moves on, by rejecting, posts no further request and leaves the cached
\* status as it was.
C34_DestroyAbandonsRun ==
  [][/\ (~destroyed /\ destroyed' /\ ops["fullSync"] \in {"waitSync", "waitIngest"})
          => /\ ops'["fullSync"] = "idle"
             /\ \E e \in EndedEvents("fullSync")' : e.outcome = "Worker terminated."
     /\ (destroyed /\ RunWaits /\ ops'["fullSync"] # ops["fullSync"])
          => /\ \A e \in EndedEvents("fullSync")' : e.outcome # "resolved"
             /\ ops'["fullSync"] = "idle"
             /\ toWorker' = toWorker
             /\ nextId' = nextId
             /\ lastSyncStatus' = lastSyncStatus]_vars

\* a fullSync call has just resolved on a destroyed client, with the cached
\* status forced to ready
C34_Witness ==
  /\ destroyed
  /\ \E e \in EndedEvents("fullSync") : e.outcome = "resolved"
  /\ lastSyncStatus.stage = "ready"
  /\ sync = InitialSync


----------------------------------------------------------------------------
\* the messages the worker posted in this step, in order
PostedNow == SubSeq(toBridge', Len(toBridge) + 1, Len(toBridge'))

\* the posted messages that answer request id
RepliesTo(id) == {i \in DOMAIN PostedNow : HasRequestId(PostedNow[i]) /\ PostedNow[i].requestId = id}

\* C35: for every request the worker handles, whatever the action (unknown
\* included) and the worker's state, it posts exactly one message carrying the
\* request's id, of type ok, snapshot or error; every other message it posts is
\* a status or log push without a requestId.
C35_OneCorrelatedReply ==
  [][WorkerHandlesHead =>
       LET id == Head(toWorker).requestId
       IN /\ Cardinality(RepliesTo(id)) = 1
          /\ \A i \in DOMAIN PostedNow :
               IF i \in RepliesTo(id)
                 THEN PostedNow[i].type \in {"ok", "snapshot", "error"}
                 ELSE /\ PostedNow[i].type \in {"syncStatus", "log"}
                      /\ "requestId" \notin DOMAIN PostedNow[i]]_vars

\* the worker, not yet initialised, has answered a later request of an
\* unknown action with an error that carries the request's id
C35_Witness ==
  /\ worker.network = "none"
  /\ nextId > 2
  /\ toBridge # <<>>
  /\ toBridge[Len(toBridge)].type = "error"
  /\ toBridge[Len(toBridge)].message = "Unknown worker action"
  /\ toBridge[Len(toBridge)].requestId = nextId - 1


----------------------------------------------------------------------------
(* The status push and the correlated reply (SpecTips) *)

\* the actions whose handler pushes the status before it replies
StatusActions == {"init", "setViewingKey", "sync", "ingestBlocks"}

\* m is the reply that will resolve a pending call of one of these actions
ResolvingReply(m) ==
  /\ HasRequestId(m)
  /\ m.requestId \in DOMAIN pendingRequests
  /\ settles[m.requestId] = 0
  /\ pendingRequests[m.requestId].action \in StatusActions
  /\ m.type = pendingRequests[m.requestId].expectedType

\* the worker handles a request of one of these actions and does not refuse it
HandlesWithSuccess ==
  /\ WorkerHandlesHead
  /\ Head(toWorker).action \in StatusActions
  /\ PostedNow[Len(PostedNow)].type # "error"

\* the worker's last two messages of the step: its status as it is when the
\* handler finishes, then the reply to the request
PushThenReply ==
  /\ Len(PostedNow) >= 2
  /\ PostedNow[Len(PostedNow) - 1] = SyncStatusMsg(worker'.syncStatus)
  /\ HasRequestId(PostedNow[Len(PostedNow)])
  /\ PostedNow[Len(PostedNow)].requestId = Head(toWorker).requestId

\* the bridge receives a status push that is followed by a resolving reply
ReceivesPushBeforeReply ==
  /\ BridgeReceives
  /\ Head(toBridge).type = "syncStatus"
  /\ Len(toBridge) >= 2
  /\ ResolvingReply(toBridge[2])

\* the resolving reply is the next message the bridge will receive: its push
\* has been delivered
ReplyIsNext == toBridge # <<>> /\ ResolvingReply(Head(toBridge))

\* no client operation other than the one awaiting the reply is in progress
NothingElseRuns ==
  \A o \in OpNames \ {OpOf(pendingRequests[Head(toBridge).requestId].action)} :
    ops[o] = "idle"

\* C36 as stated: the worker posts its status, as it is when the handler
\* finishes, right before the reply; the bridge caches that push when it
\* receives it, and the cached status is still that one when the reply
\* resolves the call, whatever else the client does in between.
C36_CacheAtResolution ==
  [][/\ HandlesWithSuccess => PushThenReply
     /\ ReceivesPushBeforeReply => lastSyncStatus' = Head(toBridge).payload
     /\ ReplyIsNext => lastSyncStatus' = lastSyncStatus]_vars

\* C36, amended: the same, provided no other client operation is in progress
\* between the delivery of the push and the delivery of the reply.
C36_CacheAtResolutionQuiet ==
  [][/\ HandlesWithSuccess => PushThenReply
     /\ ReceivesPushBeforeReply => lastSyncStatus' = Head(toBridge).payload
     /\ (ReplyIsNext /\ NothingElseRuns) => lastSyncStatus' = lastSyncStatus]_vars

\* an ingestBlocks call of a run has resolved with the run going on: the cached
\* status is the worker's scanning status of that chunk
C36_Witness ==
  /\ ops["fullSync"] = "fetch"
  /\ sync.reported # Undefined
  /\ toBridge = <<>>
  /\ toWorker = <<>>
  /\ lastSyncStatus.stage = "scanning"
  /\ lastSyncStatus = worker.syncStatus


----------------------------------------------------------------------------
\* the last attempt to fetch the current chunk fails and fullSync rejects with
\* the error of fetchBlocksWithRetries
RetriesExhausted ==
  /\ ops["fullSync"] = "fetch"
  /\ ops'["fullSync"] = "idle"
  /\ EndedEvent("fullSync", FetchError(sync.currentStart, currentEnd(sync)),
                sync.tipHeight) \in events'

\* fullSync is the only client operation in progress
OnlyFullSyncRuns == \A o \in OpNames \ {"fullSync"} : ops[o] = "idle"

\* C37: when a fullSync run rejects because the fetch retries of one of its
\* chunks are exhausted, and no other operation is running, the cached status
\* right after the rejection does not have stage "ready".
C37_FailedRunNotReady ==
  [][(RetriesExhausted /\ OnlyFullSyncRuns) => lastSyncStatus'.stage # "ready"]_vars

\* a second run, started when the first (no block to ingest) had forced the
\* cache to ready, has just rejected on the fetches of its first chunk: the
\* cached stage is the syncing that the worker pushed for its "sync"
C37_Witness ==
  /\ \E e \in EndedEvents("fullSync") :
       e.outcome = FetchError(0, Min(SYNC_CHUNK_SIZE - 1, e.tipHeight))
  /\ OnlyFullSyncRuns
  /\ nextId = 5
  /\ worker.syncStatus.latestScannedHeight = Undefined
  /\ lastSyncStatus = [IdleStatus EXCEPT !.stage = "syncing"]
  /\ toBridge = <<>>


----------------------------------------------------------------------------
\* the worker handles a "setViewingKey" that it accepts (a network is bound)
SetsViewingKey ==
  /\ WorkerHandlesHead
  /\ Head(toWorker).action = "setViewingKey"
  /\ worker.network # "none"

\* the worker handles an "ingestBlocks" that it accepts, with no start recorded
IngestsAfterReset ==
  /\ HandlesIngest
  /\ worker.network # "none"
  /\ worker.hasViewingKey
  /\ worker.syncStartHeight = Undefined

\* C38: a successful "setViewingKey" in the worker sets the key flag, resets
\* the status to idle, progress 0, no heights, no message, and clears
\* syncStartHeight and syncTargetHeight; the network and the snapshot
\* (transactions, balances) stay as they were. The next accepted "ingestBlocks"
\* therefore records its own range start as the start of a new run.
C38_SetViewingKeyResetsRun ==
  [][/\ SetsViewingKey =>
          /\ worker'.hasViewingKey
          /\ worker'.syncStatus =
               SyncStatus("idle", 0, Undefined, Undefined, NoMessage)
          /\ worker'.syncStartHeight = Undefined
          /\ worker'.syncTargetHeight = Undefined
          /\ worker'.network = worker.network
          /\ Snapshot(worker') = Snapshot(worker)
     /\ IngestsAfterReset =>
          worker'.syncStartHeight = Head(toWorker).range.startHeight]_vars

\* the worker has just accepted the "setViewingKey" that was its fourth
\* request (after, for one, init, setViewingKey and an ingestBlocks): key set,
\* status idle, no start and no target recorded, the ok reply in the queue
C38_Witness ==
  /\ worker.hasViewingKey
  /\ worker.network # "none"
  /\ worker.syncStatus = IdleStatus
  /\ worker.syncStartHeight = Undefined
  /\ worker.syncTargetHeight = Undefined
  /\ toBridge # <<>>
  /\ toBridge[Len(toBridge)] = OkMsg(4, "setViewingKey")


----------------------------------------------------------------------------
(* The runs of SpecTips with a worker that also uses the protocol's global
   error: WorkerErrorResponse without a requestId, which the bridge turns into
   the cached stage "error". The worker of this repository posts every error
   with the requestId of the request it answers. *)

FatalMessage == "fatal worker error"

\* one global error is in the queue or in the cache at a time
WorkerPostsFatal ==
  /\ workerAlive
  /\ lastSyncStatus.errorMessage = NoMessage
  /\ \A i \in DOMAIN toBridge : ~IsGlobalError(toBridge[i])
  /\ toBridge' = Append(toBridge, ErrorMsg(FatalMessage, NoRequestId, TRUE))
  /\ UNCHANGED <<worker, workerAlive, toWorker, bridgeVars, poolVars, sessionVars>>

NextFatal ==
  \/ RunCallInit
  \/ RunCallSetViewingKey
  \/ RunCallFullSync
  \/ FullSyncTip
  \/ FullSyncTipFails
  \/ RunFetch
  \/ FetchFails
  \/ WorkerHandles
  \/ BridgeOnMessage
  \/ WorkerPostsFatal

SpecFatal == Init /\ [][NextFatal]_vars

----------------------------------------------------------------------------
\* C40 as stated: whenever a withFailover call has just returned successfully
\* and no other call is in progress, the pool's active endpoint is marked
\* healthy, whatever failures and re-selections came before.
C40_ActiveHealthyAfterSuccess ==
  (call.pc = "idle" /\ call.result = "returned") =>
    /\ activeEndpoint # NoEndpoint
    /\ endpoints[activeEndpoint].healthy

\* the second call has returned from its first attempt, on the endpoint that
\* the first call left active and unhealthy: its operation failed there and the
\* probe of the re-selection failed too
C40_Witness ==
  /\ call.pc = "idle"
  /\ call.result = "returned"
  /\ call.made = 2
  /\ call.tried = {activeEndpoint}
  /\ ~endpoints[activeEndpoint].healthy
  /\ endpoints[activeEndpoint].lastError = "healthcheck failed"

====
